---- MODULE Spec2Model ----
(***************************************************************************)
(* Model of github.com/advbet/decimal: the Number type (an alias of the    *)
(* arbitrary-precision Decimal: a *big.Int coefficient and an int32        *)
(* exponent) and the package functions Round, Rescale, ScaledVal, MulInt,  *)
(* NewFromRat, FromString and FromFloat64 built on it.  The methods of     *)
(* Decimal the                                                             *)
(* package calls (Round, RoundBank, RoundFloor, RoundCeil, Add, Sub, Mul,  *)
(* Neg, Cmp, Abs, CoefficientInt64, String) are modelled step by step as   *)
(* the Dec* operators and String.                                          *)
(*                                                                         *)
(* Spec makes one call of Round, Rescale, ScaledVal or Add on a new        *)
(* Number; SpecArith one call of Cmp, Mul or MulInt; SpecText formats and  *)
(* parses; SpecFloat converts a float64; SpecSeq makes sequences of calls  *)
(* over coefficients kept in shared cells; SpecRule calls Round with a     *)
(* rule outside the declared constants; SpecRat converts a *big.Rat with   *)
(* each of the two NewFromRat of the sources.                              *)
(*                                                                         *)
(* A big.Int is modelled as a sign and the decimal digits of its           *)
(* magnitude, least significant digit first, so that coefficients wider    *)
(* than a machine word are computed exactly, as math/big computes them.    *)
(***************************************************************************)
EXTENDS Integers, Sequences, FiniteSets, TLC

(***************************************************************************)
(* Bounds of the model.                                                    *)
(***************************************************************************)
\* operand coefficients are drawn from -MaxVal..MaxVal
MaxVal == 155
\* operand exponents are drawn from -MaxExp..(MaxExp - 1), Round targets from
\* (-MaxExp - 2)..MaxExp
MaxExp == 2
\* Rescale and ScaledVal targets go down to MaxShift digits below the operand
MaxShift == 20
\* the wide operands are +-10^WideDigits, beyond the int64 range
WideDigits == 20
\* second operands of Add have coefficients in -MaxW..MaxW
MaxW == 12
\* first operands of Cmp, Mul and MulInt have coefficients in -MaxA..MaxA
MaxA == 50
\* the parser is given every string of at most MaxStrLen characters
MaxStrLen == 4
\* float64 arguments are mant * 2^e2, mant in 0..MaxMant, e2 in -MaxBin..MaxBin
MaxMant == 31
MaxBin == 3
\* sequences of calls are at most MaxSteps long and start from coefficients
\* in -MaxSeqVal..MaxSeqVal at exponents in -MaxSeqExp..MaxSeqExp, which are
\* also the exponent arguments of their calls
MaxSteps == 2
MaxSeqVal == 5
MaxSeqExp == 1

(***************************************************************************)
(* math/big.Int: sign and magnitude.                                       *)
(***************************************************************************)
Dig(a, i) == IF i <= Len(a) THEN a[i] ELSE 0

RECURSIVE Trim(_)
\* the magnitude without its leading (most significant) zeros: nat.norm
Trim(a) ==
    IF a = <<>> THEN <<>>
    ELSE IF a[Len(a)] = 0 THEN Trim(SubSeq(a, 1, Len(a) - 1))
    ELSE a

RECURSIVE NatDigits(_)
\* the digits of a natural number, least significant first
NatDigits(n) == IF n = 0 THEN <<>> ELSE <<n % 10>> \o NatDigits(n \div 10)

RECURSIVE DigitsNat(_)
\* the natural number a (short) digit sequence denotes
DigitsNat(a) == IF a = <<>> THEN 0 ELSE a[1] + 10 * DigitsNat(Tail(a))

RECURSIVE Zeros(_)
Zeros(k) == IF k <= 0 THEN <<>> ELSE <<0>> \o Zeros(k - 1)

RECURSIVE CmpFrom(_, _, _)
CmpFrom(a, b, i) ==
    IF i = 0 THEN 0
    ELSE IF a[i] < b[i] THEN -1
    ELSE IF a[i] > b[i] THEN 1
    ELSE CmpFrom(a, b, i - 1)

\* nat.cmp: -1, 0, +1
AbsCmp(a, b) ==
    IF Len(a) < Len(b) THEN -1
    ELSE IF Len(a) > Len(b) THEN 1
    ELSE CmpFrom(a, b, Len(a))

RECURSIVE AddFrom(_, _, _, _)
AddFrom(a, b, i, c) ==
    IF i > Len(a) /\ i > Len(b)
    THEN (IF c = 0 THEN <<>> ELSE <<c>>)
    ELSE LET s == Dig(a, i) + Dig(b, i) + c
         IN  <<s % 10>> \o AddFrom(a, b, i + 1, s \div 10)

\* nat.add
AbsAdd(a, b) == AddFrom(a, b, 1, 0)

RECURSIVE SubFrom(_, _, _, _)
SubFrom(a, b, i, br) ==
    IF i > Len(a) THEN <<>>
    ELSE LET s == a[i] - Dig(b, i) - br
         IN  <<IF s < 0 THEN s + 10 ELSE s>>
               \o SubFrom(a, b, i + 1, IF s < 0 THEN 1 ELSE 0)

\* nat.sub, for a >= b
AbsSub(a, b) == Trim(SubFrom(a, b, 1, 0))

MkBig(neg, abs) == [neg |-> neg /\ abs # <<>>, abs |-> abs]

\* big.NewInt(n)
Big(n) == IF n < 0 THEN MkBig(TRUE, NatDigits(-n)) ELSE MkBig(FALSE, NatDigits(n))

\* the integer a (short) big.Int denotes
IntOf(x) == IF x.neg THEN -DigitsNat(x.abs) ELSE DigitsNat(x.abs)

\* (*Int).Sign
BigSign(x) == IF x.abs = <<>> THEN 0 ELSE IF x.neg THEN -1 ELSE 1

\* (*Int).Neg
BigNeg(x) == MkBig(~x.neg, x.abs)

\* (*Int).Abs
BigAbs(x) == MkBig(FALSE, x.abs)

\* (*Int).Add
BigAdd(x, y) ==
    IF x.neg = y.neg THEN MkBig(x.neg, AbsAdd(x.abs, y.abs))
    ELSE IF AbsCmp(x.abs, y.abs) >= 0 THEN MkBig(x.neg, AbsSub(x.abs, y.abs))
    ELSE MkBig(y.neg, AbsSub(y.abs, x.abs))

\* (*Int).Sub
BigSub(x, y) == BigAdd(x, BigNeg(y))

\* (*Int).Cmp
BigCmp(x, y) ==
    IF x.neg # y.neg THEN (IF x.neg THEN -1 ELSE 1)
    ELSE IF x.neg THEN AbsCmp(y.abs, x.abs)
    ELSE AbsCmp(x.abs, y.abs)

\* (*Int).Bit(0): the lowest bit, 1 for an odd number of either sign
BigBit0(x) == Dig(x.abs, 1) % 2

\* value.Mul(value, 10^k): k more low-order digits
BigMulPow10(x, k) == IF x.abs = <<>> THEN x ELSE MkBig(x.neg, Zeros(k) \o x.abs)

\* value.Quo(value, 10^k): the quotient truncated toward zero drops k digits
BigQuoPow10(x, k) ==
    IF k >= Len(x.abs) THEN MkBig(FALSE, <<>>)
    ELSE MkBig(x.neg, SubSeq(x.abs, k + 1, Len(x.abs)))

\* (*Int).DivMod(x, 10): Euclidean division, 0 <= m < 10 and x = 10*q + m
BigDivMod10(x) ==
    LET t == BigQuoPow10(x, 1)
        r == Dig(x.abs, 1)
    IN  IF x.neg /\ r # 0
        THEN [q |-> BigSub(t, Big(1)), m |-> 10 - r]
        ELSE [q |-> t, m |-> r]

RECURSIVE MulDigitFrom(_, _, _, _)
MulDigitFrom(a, d, i, c) ==
    IF i > Len(a)
    THEN (IF c = 0 THEN <<>> ELSE <<c>>)
    ELSE LET s == a[i] * d + c
         IN  <<s % 10>> \o MulDigitFrom(a, d, i + 1, s \div 10)

\* a magnitude times one digit
AbsMulDigit(a, d) == IF d = 0 THEN <<>> ELSE MulDigitFrom(a, d, 1, 0)

RECURSIVE AbsMul(_, _)
\* nat.mul: the full product, one digit of b at a time
AbsMul(a, b) ==
    IF a = <<>> \/ b = <<>> THEN <<>>
    ELSE LET rest == AbsMul(a, Tail(b))
         IN  AbsAdd(AbsMulDigit(a, b[1]), IF rest = <<>> THEN <<>> ELSE <<0>> \o rest)

\* (*Int).Mul
BigMul(x, y) == MkBig(x.neg # y.neg, AbsMul(x.abs, y.abs))

RECURSIVE Rev(_)
Rev(a) == IF a = <<>> THEN <<>> ELSE Rev(Tail(a)) \o <<a[1]>>

\* 2^64 and 2^63, the width of the machine word (*Int).Int64 returns
Two64 == Rev(<<1,8,4,4,6,7,4,4,0,7,3,7,0,9,5,5,1,6,1,6>>)
Two63 == Rev(<<9,2,2,3,3,7,2,0,3,6,8,5,4,7,7,5,8,0,8>>)

RECURSIVE Reduce(_, _)
\* a modulo 2^64, by subtracting 2^64 * 10^j for j downto 0
Reduce(a, j) ==
    IF j < 0 THEN a
    ELSE LET mj == Zeros(j) \o Two64
         IN  IF AbsCmp(a, mj) >= 0 THEN Reduce(AbsSub(a, mj), j) ELSE Reduce(a, j - 1)

\* low64(x.abs): the low 64 bits of the magnitude
Low64(a) == Reduce(a, IF Len(a) > Len(Two64) THEN Len(a) - Len(Two64) ELSE 0)

\* (*Int).Int64: v := int64(low64(x.abs)); if x.neg { v = -v }, in 64-bit
\* two's complement (no panic, no error: a value that does not fit wraps)
BigInt64(x) ==
    LET lo == Low64(x.abs)
        v  == IF AbsCmp(lo, Two63) >= 0
              THEN MkBig(TRUE, AbsSub(Two64, lo))
              ELSE MkBig(FALSE, lo)
    IN  IF x.neg /\ v.abs # Two63 THEN BigNeg(v) ELSE v

\* whether a big.Int is within -2^63 .. 2^63 - 1
FitsInt64(x) ==
    \/ AbsCmp(x.abs, Two63) < 0
    \/ x.neg /\ x.abs = Two63

(***************************************************************************)
(* Number = decimal.Decimal: value (coefficient) and exp.                  *)
(***************************************************************************)
\* decimal.New(value, exp), for a coefficient given as an integer
New(n, e) == [val |-> Big(n), exp |-> e]

\* Decimal.rescale: to exponent exp, truncating toward zero when exp is above
DecRescale(d, exp) ==
    IF d.exp = exp THEN d
    ELSE IF exp > d.exp THEN [val |-> BigQuoPow10(d.val, exp - d.exp), exp |-> exp]
    ELSE [val |-> BigMulPow10(d.val, d.exp - exp), exp |-> exp]

\* decimal.RescalePair: both at the smaller of the two exponents
RescalePair(d1, d2) ==
    IF d1.exp < d2.exp THEN <<d1, DecRescale(d2, d1.exp)>>
    ELSE IF d1.exp > d2.exp THEN <<DecRescale(d1, d2.exp), d2>>
    ELSE <<d1, d2>>

\* DecAdd aligning to the coarser exponent instead of the finer one
DecAddCoarse(d, d2) ==
    LET hi == IF d.exp > d2.exp THEN d.exp ELSE d2.exp
    IN  [val |-> BigAdd(DecRescale(d, hi).val, DecRescale(d2, hi).val), exp |-> hi]

\* Decimal.Add
DecAdd(d, d2) ==
    LET p == RescalePair(d, d2)
    IN  [val |-> BigAdd(p[1].val, p[2].val), exp |-> p[1].exp]

\* Decimal.Sub
DecSub(d, d2) ==
    LET p == RescalePair(d, d2)
    IN  [val |-> BigSub(p[1].val, p[2].val), exp |-> p[1].exp]

\* DecCmp comparing the stored coefficients without aligning the exponents
DecCmpUnaligned(d, d2) == BigCmp(d.val, d2.val)

\* Decimal.Cmp
DecCmp(d, d2) ==
    LET p == RescalePair(d, d2)
    IN  BigCmp(p[1].val, p[2].val)

\* Decimal.Equal
DecEqual(d, d2) == DecCmp(d, d2) = 0

\* Decimal.Abs
DecAbs(d) == [val |-> BigAbs(d.val), exp |-> d.exp]

\* Decimal.Neg
DecNeg(d) == [val |-> BigNeg(d.val), exp |-> d.exp]

\* decimal.NewFromInt(value): exponent 0
DecNewFromInt(n) == [val |-> Big(n), exp |-> 0]

\* DecMul keeping the product in a 64-bit word
DecMulInt64(d, d2) == [val |-> BigInt64(BigMul(d.val, d2.val)), exp |-> d.exp + d2.exp]

\* Decimal.Mul: the product of the coefficients, the sum of the exponents
DecMul(d, d2) == [val |-> BigMul(d.val, d2.val), exp |-> d.exp + d2.exp]

\* DecRound adding 5 whatever the sign
DecRoundUnsigned(d, places) ==
    IF d.exp = -places THEN d
    ELSE LET ret == DecRescale(d, -places - 1)
             dm  == BigDivMod10(BigAdd(ret.val, Big(5)))
             q   == IF BigSign(dm.q) < 0 /\ dm.m # 0
                    THEN BigAdd(dm.q, Big(1))
                    ELSE dm.q
         IN  [val |-> q, exp |-> ret.exp + 1]

\* Decimal.Round(places): half away from zero.  Truncate to places + 1
\* digits, add sign * 5, divide by ten toward zero.
DecRound(d, places) ==
    IF d.exp = -places THEN d
    ELSE LET ret == DecRescale(d, -places - 1)
             sum == IF BigSign(ret.val) < 0
                    THEN BigSub(ret.val, Big(5))
                    ELSE BigAdd(ret.val, Big(5))
             dm  == BigDivMod10(sum)
             q   == IF BigSign(dm.q) < 0 /\ dm.m # 0
                    THEN BigAdd(dm.q, Big(1))
                    ELSE dm.q
         IN  [val |-> q, exp |-> ret.exp + 1]

\* DecRoundBank without the step back at a tie
DecRoundBankNoTie(d, places) == DecRound(d, places)

\* Decimal.RoundBank(places): Round, then one step back toward zero when the
\* remainder is exactly one half and the rounded coefficient is odd
DecRoundBank(d, places) ==
    LET round     == DecRound(d, places)
        remainder == DecAbs(DecSub(d, round))
        half      == New(5, -places - 1)
    IN  IF DecCmp(remainder, half) = 0 /\ BigBit0(round.val) # 0
        THEN IF BigSign(round.val) < 0
             THEN [round EXCEPT !.val = BigAdd(round.val, Big(1))]
             ELSE [round EXCEPT !.val = BigSub(round.val, Big(1))]
        ELSE round

\* DecRoundFloor without the step down for a negative value
DecRoundFloorNoStep(d, places) ==
    IF d.exp >= -places THEN d ELSE DecRescale(d, -places)

\* Decimal.RoundFloor(places)
DecRoundFloor(d, places) ==
    IF d.exp >= -places THEN d
    ELSE LET rescaled == DecRescale(d, -places)
         IN  IF DecEqual(d, rescaled) THEN d
             ELSE IF BigSign(d.val) < 0
             THEN [rescaled EXCEPT !.val = BigSub(rescaled.val, Big(1))]
             ELSE rescaled

\* DecRoundCeil without the step up for a positive value
DecRoundCeilNoStep(d, places) ==
    IF d.exp >= -places THEN d ELSE DecRescale(d, -places)

\* Decimal.RoundCeil(places)
DecRoundCeil(d, places) ==
    IF d.exp >= -places THEN d
    ELSE LET rescaled == DecRescale(d, -places)
         IN  IF DecEqual(d, rescaled) THEN d
             ELSE IF BigSign(d.val) > 0
             THEN [rescaled EXCEPT !.val = BigAdd(rescaled.val, Big(1))]
             ELSE rescaled

(***************************************************************************)
(* The package's own functions.                                            *)
(***************************************************************************)
RoundTruncate == 0
RoundFloor == 1
RoundCeil == 2
RoundMath == 3
RoundBankers == 4

\* Rescale dividing with (*Int).Div (Euclidean) instead of Quo (truncating)
RescaleFloorDiv(d, exp) ==
    IF d.exp = exp THEN d
    ELSE IF exp > d.exp
    THEN LET t == BigQuoPow10(d.val, exp - d.exp)
         IN  [val |-> IF d.val.neg /\ BigMulPow10(t, exp - d.exp) # d.val
                      THEN BigSub(t, Big(1)) ELSE t,
              exp |-> exp]
    ELSE [val |-> BigMulPow10(d.val, d.exp - exp), exp |-> exp]

\* Rescale with the two branches exchanged
RescaleSwapped(d, exp) ==
    IF d.exp = exp THEN d
    ELSE IF exp < d.exp THEN [val |-> BigQuoPow10(d.val, d.exp - exp), exp |-> exp]
    ELSE [val |-> BigMulPow10(d.val, exp - d.exp), exp |-> exp]

\* Rescale(d, exp): the coefficient divided (truncating) or multiplied by
\* 10^|exp - d.exp| in big.Int arithmetic; there is no failing path
Rescale(d, exp) ==
    IF d.exp = exp THEN d
    ELSE IF exp > d.exp THEN [val |-> BigQuoPow10(d.val, exp - d.exp), exp |-> exp]
    ELSE [val |-> BigMulPow10(d.val, d.exp - exp), exp |-> exp]

\* Round without the closing Rescale of the rounded value
RoundNoFinalRescale(value, exp, rule) ==
    IF exp <= value.exp THEN Rescale(value, exp)
    ELSE IF rule = RoundBankers THEN DecRoundBank(value, -1 * exp)
    ELSE IF rule = RoundMath THEN DecRound(value, -1 * exp)
    ELSE IF rule = RoundFloor THEN DecRoundFloor(value, -1 * exp)
    ELSE IF rule = RoundCeil THEN DecRoundCeil(value, -1 * exp)
    ELSE Rescale(value, exp)

\* Round with the default branch of its switch falling into the RoundMath case
RoundUnknownAsMath(value, exp, rule) ==
    IF exp <= value.exp THEN Rescale(value, exp)
    ELSE IF rule = RoundBankers THEN Rescale(DecRoundBank(value, -1 * exp), exp)
    ELSE IF rule = RoundFloor THEN Rescale(DecRoundFloor(value, -1 * exp), exp)
    ELSE IF rule = RoundCeil THEN Rescale(DecRoundCeil(value, -1 * exp), exp)
    ELSE IF rule = RoundTruncate THEN Rescale(value, exp)
    ELSE Rescale(DecRound(value, -1 * exp), exp)

\* Round with the RoundCeil case calling RoundFloor
RoundCeilAsFloor(value, exp, rule) ==
    IF exp <= value.exp THEN Rescale(value, exp)
    ELSE IF rule = RoundBankers THEN Rescale(DecRoundBank(value, -1 * exp), exp)
    ELSE IF rule = RoundMath THEN Rescale(DecRound(value, -1 * exp), exp)
    ELSE IF rule = RoundFloor THEN Rescale(DecRoundFloor(value, -1 * exp), exp)
    ELSE IF rule = RoundCeil THEN Rescale(DecRoundFloor(value, -1 * exp), exp)
    ELSE Rescale(value, exp)

\* Round(value, exp, rule)
Round(value, exp, rule) ==
    IF exp <= value.exp THEN Rescale(value, exp)
    ELSE IF rule = RoundBankers THEN Rescale(DecRoundBank(value, -1 * exp), exp)
    ELSE IF rule = RoundMath THEN Rescale(DecRound(value, -1 * exp), exp)
    ELSE IF rule = RoundFloor THEN Rescale(DecRoundFloor(value, -1 * exp), exp)
    ELSE IF rule = RoundCeil THEN Rescale(DecRoundCeil(value, -1 * exp), exp)
    ELSE Rescale(value, exp)

\* ScaledVal(d, exp): Rescale(d, exp).CoefficientInt64()
ScaledVal(d, exp) == BigInt64(Rescale(d, exp).val)

\* MulInt returning the canonical zero when the product is zero
MulIntNormalized(value, n) ==
    LET r == DecMul(value, DecNewFromInt(n))
    IN  IF BigSign(r.val) = 0 THEN DecNewFromInt(0) ELSE r

\* MulInt(value, n): d := NewFromInt(int64(n)); value.Mul(d)
MulInt(value, n) == DecMul(value, DecNewFromInt(n))

(***************************************************************************)
(* Text: a string is the sequence of its characters.                       *)
(***************************************************************************)
DigitChars == <<"0", "1", "2", "3", "4", "5", "6", "7", "8", "9">>

IsDigitChar(c) == \E i \in 1..Len(DigitChars) : DigitChars[i] = c

\* the value of a digit character
CharVal(c) == (CHOOSE i \in 1..Len(DigitChars) : DigitChars[i] = c) - 1

\* the digits of a magnitude as text, most significant first
DigitText(a) == [i \in 1..Len(a) |-> DigitChars[a[Len(a) - i + 1] + 1]]

\* (*Int).String: "0" for zero, "-" before a negative number
BigString(x) ==
    IF x.abs = <<>> THEN <<"0">>
    ELSE (IF x.neg THEN <<"-">> ELSE <<>>) \o DigitText(x.abs)

RECURSIVE Repeat(_, _)
\* strings.Repeat(c, k)
Repeat(c, k) == IF k <= 0 THEN <<>> ELSE <<c>> \o Repeat(c, k - 1)

RECURSIVE TrimTrailingZeros(_)
\* the fractional part without its trailing "0" characters
TrimTrailingZeros(s) ==
    IF s = <<>> THEN <<>>
    ELSE IF s[Len(s)] = "0" THEN TrimTrailingZeros(SubSeq(s, 1, Len(s) - 1))
    ELSE s

\* Decimal.String = string(trimTrailingZeros = true): an exponent >= 0 prints
\* the coefficient rescaled to exponent 0; a negative exponent splits the
\* digits at the point, pads with zeros, and drops the trailing zeros of the
\* fraction (and the point when nothing is left of it)
String(d) ==
    IF d.exp >= 0 THEN BigString(DecRescale(d, 0).val)
    ELSE LET s  == BigString(BigAbs(d.val))
             n  == -d.exp
             ip == IF Len(s) > n THEN SubSeq(s, 1, Len(s) - n) ELSE <<"0">>
             fp == IF Len(s) > n THEN SubSeq(s, Len(s) - n + 1, Len(s))
                   ELSE Repeat("0", n - Len(s)) \o s
             fr == TrimTrailingZeros(fp)
             number == ip \o (IF fr = <<>> THEN <<>> ELSE <<".">> \o fr)
         IN  IF BigSign(d.val) < 0 THEN <<"-">> \o number ELSE number

\* strconv.ParseInt(s, 10, _) and (*Int).SetString(s, 10): an optional sign
\* and one or more digits, nothing else
ParseSigned(s) ==
    LET signed == s # <<>> /\ s[1] \in {"+", "-"}
        body   == IF signed THEN Tail(s) ELSE s
        ok     == body # <<>> /\ \A i \in 1..Len(body) : IsDigitChar(body[i])
    IN  IF ok
        THEN [ok  |-> TRUE,
              val |-> MkBig(s[1] = "-",
                            Trim([i \in 1..Len(body) |->
                                     CharVal(body[Len(body) - i + 1])]))]
        ELSE [ok |-> FALSE, val |-> Big(0)]

\* strings.IndexAny, counting from 1; 0 when no character of cs occurs
IndexAny(s, cs) ==
    IF \E i \in 1..Len(s) : s[i] \in cs
    THEN CHOOSE i \in 1..Len(s) : s[i] \in cs /\ \A j \in 1..(i - 1) : s[j] \notin cs
    ELSE 0

\* the exponent a decimal point contributes: -len(value[pIndex+1:])
PointExp(value, pIndex) == -(Len(value) - pIndex)

\* the failed parse: the zero Decimal and an error
ParseError == [ok |-> FALSE, d |-> [val |-> Big(0), exp |-> 0]]

\* FromString = decimal.NewFromString.  An 'e' or 'E' splits off a decimal
\* exponent; at most one '.' is taken out of the rest, each digit after it
\* lowering the exponent by one; what is left must parse as an integer.
\* (The exponents of the model's strings are within int32.)
FromString(s) ==
    LET eIndex  == IndexAny(s, {"e", "E"})
        expPart == IF eIndex = 0 THEN [ok |-> TRUE, val |-> Big(0)]
                   ELSE ParseSigned(SubSeq(s, eIndex + 1, Len(s)))
        value   == IF eIndex = 0 THEN s ELSE SubSeq(s, 1, eIndex - 1)
        points  == {i \in 1..Len(value) : value[i] = "."}
        pIndex  == IF points = {} THEN 0 ELSE CHOOSE i \in points : TRUE
        intString ==
            IF pIndex = 0 THEN value
            ELSE SubSeq(value, 1, pIndex - 1) \o SubSeq(value, pIndex + 1, Len(value))
        coef    == ParseSigned(intString)
    IN  IF ~expPart.ok THEN ParseError
        ELSE IF Cardinality(points) > 1 THEN ParseError
        ELSE IF ~coef.ok THEN ParseError
        ELSE [ok |-> TRUE,
              d  |-> [val |-> coef.val,
                      exp |-> IntOf(expPart.val)
                                + (IF pIndex = 0 THEN 0 ELSE PointExp(value, pIndex))]]

(***************************************************************************)
(* float64 values.                                                         *)
(***************************************************************************)
\* a finite float64 of value (-1)^neg * mant * 2^e2, the magnitude mant
\* (below 2^53) as decimal digits, least significant first
Float(neg, mant, e2) ==
    [kind |-> "finite", neg |-> neg /\ mant # <<>>, mant |-> mant, e2 |-> e2]

\* math.Inf(1), math.Inf(-1), math.NaN()
NonFinite == {[kind |-> k, neg |-> FALSE, mant |-> <<>>, e2 |-> 0] : k \in {"+Inf", "-Inf", "NaN"}}

RECURSIVE PowI(_, _)
PowI(b, k) == IF k <= 0 THEN 1 ELSE b * PowI(b, k - 1)

(***************************************************************************)
(* *big.Rat and the two NewFromRat of the sources.  A Rat is a numerator   *)
(* and a positive denominator in lowest terms, both big.Int.  The float64  *)
(* and division arithmetic works on the magnitude's limbs (base 10^4).     *)
(***************************************************************************)
RECURSIVE GCD(_, _)
GCD(a, b) == IF b = 0 THEN a ELSE GCD(b, a % b)

\* big.NewRat(a, b) for b > 0: the fraction reduced to lowest terms
NewRat(a, b) ==
    LET g == GCD(IF a < 0 THEN -a ELSE a, b)
    IN  [num |-> Big(a \div g), den |-> Big(b \div g)]

\* (*Rat).IsInt: the denominator is 1
IsInt(r) == r.den = Big(1)

\* the base of a limb: four decimal digits
WordBase == 10000

\* a magnitude's limbs, least significant first
ToWords(a) ==
    [j \in 1..((Len(a) + 3) \div 4) |->
        Dig(a, 4 * j - 3) + 10 * Dig(a, 4 * j - 2)
            + 100 * Dig(a, 4 * j - 1) + 1000 * Dig(a, 4 * j)]

\* the decimal digits of a sequence of limbs
FromWords(ws) ==
    Trim([i \in 1..(4 * Len(ws)) |->
            (ws[(i - 1) \div 4 + 1] \div PowI(10, (i - 1) % 4)) % 10])

RECURSIVE MulWords(_, _, _, _, _)
\* the limbs lo..hi of ws times d, plus the carry c into them: the limbs of
\* the product and the carry out of them
MulWords(ws, d, lo, hi, c) ==
    IF lo > hi THEN [s |-> <<>>, c |-> c]
    ELSE IF lo = hi
    THEN LET t == ws[lo] * d + c
         IN  [s |-> <<t % WordBase>>, c |-> t \div WordBase]
    ELSE LET mid == (lo + hi) \div 2
             low == MulWords(ws, d, lo, mid, c)
             high == MulWords(ws, d, mid + 1, hi, low.c)
         IN  [s |-> low.s \o high.s, c |-> high.c]

\* nat.mulAddWW: limbs times a one-word factor d, 9999 * d + d < 2^31; the
\* carry out of the last limb is written as limbs of its own
WMulSmall(ws, d) ==
    IF d = 0 \/ ws = <<>> THEN <<>>
    ELSE LET p == MulWords(ws, d, 1, Len(ws), 0)
         IN  p.s \o ToWords(NatDigits(p.c))

\* nat.sub on limbs, for a >= b: limb i of a less limb i of b less the borrow
\* out of the limbs below it, which is 1 when those hold less in a than in b
WSub(a, b) ==
    LET borrow(i) == \E j \in 1..i : /\ a[j] < Dig(b, j)
                                     /\ \A m \in (j + 1)..i : a[m] = Dig(b, m)
    IN  Trim([i \in 1..Len(a) |->
                (a[i] - Dig(b, i) - (IF borrow(i - 1) THEN 1 ELSE 0) + WordBase)
                    % WordBase])

RECURSIVE DivWordsFrom(_, _, _)
\* the quotient limbs i.. of ws by d and the remainder they leave
DivWordsFrom(ws, d, i) ==
    IF i > Len(ws) THEN [q |-> <<>>, r |-> 0]
    ELSE LET hi == DivWordsFrom(ws, d, i + 1)
             t == hi.r * WordBase + ws[i]
         IN  [q |-> <<t \div d>> \o hi.q, r |-> t % d]

\* nat.divW: quotient and remainder of limbs by a one-word divisor d below
\* the limb base
WDivSmall(ws, d) ==
    LET t == DivWordsFrom(ws, d, 1)
    IN  [q |-> Trim(t.q), r |-> t.r]

RECURSIVE QuoWord(_, _, _, _)
\* the greatest c < WordBase with c * d <= t, for t < WordBase * d: the
\* quotient word of one step of the long division, found one decimal digit
\* at a time from acc and the place value step
QuoWord(d, t, acc, step) ==
    IF step = 0 THEN acc
    ELSE QuoWord(d, t,
                 acc + step * (CHOOSE c \in 0..9 :
                    /\ AbsCmp(WMulSmall(d, acc + c * step), t) <= 0
                    /\ c = 9 \/ AbsCmp(WMulSmall(d, acc + (c + 1) * step), t) > 0),
                 step \div 10)

RECURSIVE WDivFrom(_, _, _)
\* nat.div, long division by a divisor of any length: the quotient limbs i..
\* of ws by the limbs d and the remainder they leave
WDivFrom(ws, d, i) ==
    IF i > Len(ws) THEN [q |-> <<>>, r |-> <<>>]
    ELSE LET hi == WDivFrom(ws, d, i + 1)
             t == Trim(<<ws[i]>> \o hi.r)
             c == QuoWord(d, t, 0, 1000)
         IN  IF AbsCmp(t, d) < 0 THEN [q |-> <<0>> \o hi.q, r |-> t]
             ELSE [q |-> <<c>> \o hi.q, r |-> WSub(t, WMulSmall(d, c))]

\* nat.div on limbs: quotient and remainder of ws by d, d not zero
WDiv(ws, d) ==
    LET t == WDivFrom(ws, d, 1)
    IN  [q |-> Trim(t.q), r |-> t.r]

RECURSIVE AddWordsTo(_, _, _)
AddWordsTo(a, b, i) ==
    IF i = 0 THEN [s |-> <<>>, c |-> 0]
    ELSE LET lo == AddWordsTo(a, b, i - 1)
             t == Dig(a, i) + Dig(b, i) + lo.c
         IN  [s |-> Append(lo.s, t % WordBase), c |-> t \div WordBase]

\* nat.add on limbs
WAdd(a, b) ==
    LET p == AddWordsTo(a, b, IF Len(a) > Len(b) THEN Len(a) ELSE Len(b))
    IN  IF p.c = 0 THEN p.s ELSE Append(p.s, p.c)

RECURSIVE WShl(_, _)
\* nat.shl: ws * 2^k, a long shift as two shifts of half the length
WShl(ws, k) ==
    IF ws = <<>> \/ k <= 0 THEN ws
    ELSE IF k <= 13 THEN WMulSmall(ws, PowI(2, k))
    ELSE WShl(WShl(ws, k \div 2), k - k \div 2)

RECURSIVE WShr(_, _)
\* nat.shr: ws \div 2^k
WShr(ws, k) ==
    IF ws = <<>> \/ k <= 0 THEN ws
    ELSE IF k <= 13 THEN WDivSmall(ws, PowI(2, k)).q
    ELSE WShr(WShr(ws, k \div 2), k - k \div 2)

RECURSIVE WMulPow5(_, _)
\* ws * 5^k, a high power as two powers of half the height
WMulPow5(ws, k) ==
    IF ws = <<>> \/ k <= 0 THEN ws
    ELSE IF k <= 5 THEN WMulSmall(ws, PowI(5, k))
    ELSE WMulPow5(WMulPow5(ws, k \div 2), k - k \div 2)

RECURSIVE WQuoPow5(_, _)
\* ws \div 5^k
WQuoPow5(ws, k) ==
    IF k <= 0 \/ ws = <<>> THEN ws
    ELSE IF k >= 5 THEN WQuoPow5(WDivSmall(ws, 3125).q, k - 5)
    ELSE WQuoPow5(WDivSmall(ws, 5).q, k - 1)

\* 2^52: a float64 mantissa has 53 bits, 2^52 <= mant < 2^53
Two52 == Rev(<<4,5,0,3,5,9,9,6,2,7,3,7,0,4,9,6>>)

RECURSIVE FloatShift(_, _)
\* the least k with t * 2^k >= lim
FloatShift(t, lim) ==
    IF AbsCmp(t, lim) >= 0 THEN 0
    ELSE IF AbsCmp(WMulSmall(t, 8192), lim) <= 0
    THEN 13 + FloatShift(WMulSmall(t, 8192), lim)
    ELSE IF AbsCmp(WMulSmall(t, 16), lim) <= 0
    THEN 4 + FloatShift(WMulSmall(t, 16), lim)
    ELSE 1 + FloatShift(WMulSmall(t, 2), lim)

\* (*Rat).Float64 for a value within the normal range of float64: the
\* nearest float64 mant * 2^e2, a tie going to the even mantissa.  The
\* numerator is shifted left by k, or the denominator by j, so that the
\* quotient has 53 bits (2^52 <= q < 2^53); the remainder decides the rounding
RatFloat64(r) ==
    IF r.num.abs = <<>> THEN [neg |-> FALSE, mant |-> <<>>, e2 |-> 0]
    ELSE LET n == ToWords(r.num.abs)
             d == ToWords(r.den.abs)
             j == FloatShift(WShl(d, 53), WAdd(n, <<1>>))
             k == IF j > 0 THEN 0 ELSE FloatShift(n, WShl(d, 52))
             den == WShl(d, j)
             t == WDiv(WShl(n, k), den)
             half == AbsCmp(WMulSmall(t.r, 2), den)
             up == half > 0 \/ (half = 0 /\ t.q[1] % 2 = 1)
         IN  [neg |-> r.num.neg,
              mant |-> FromWords(IF up THEN WAdd(t.q, <<1>>) ELSE t.q),
              e2 |-> j - k]

\* int64(math.Floor(f)): the values the conversion can give.  The floor when
\* int64 holds it; otherwise the value is left to the implementation, and is
\* the lowest int64 (amd64) or the bound nearer to f (a saturating
\* conversion)
FloorInt64(x) ==
    LET m == ToWords(x.mant)
        q == IF x.e2 > 0 THEN WShl(m, x.e2) ELSE WShr(m, -x.e2)
        fl == IF x.neg /\ x.e2 < 0 /\ WShl(q, -x.e2) # m
              THEN MkBig(TRUE, FromWords(WAdd(q, <<1>>)))
              ELSE MkBig(x.neg, FromWords(q))
    IN  IF FitsInt64(fl) THEN {fl}
        ELSE IF fl.neg THEN {MkBig(TRUE, Two63)}
        ELSE {MkBig(TRUE, Two63),
              MkBig(FALSE, Rev(<<9,2,2,3,3,7,2,0,3,6,8,5,4,7,7,5,8,0,7>>))}

RECURSIVE TrailingZeroBits(_)
\* the number of turns of: for mant&1 == 0 { mant = mant >> 1; exp2++ }
TrailingZeroBits(ws) ==
    IF ws = <<>> \/ ws[1] % 2 = 1 THEN 0
    ELSE IF WDivSmall(ws, 8192).r = 0
    THEN 13 + TrailingZeroBits(WDivSmall(ws, 8192).q)
    ELSE IF WDivSmall(ws, 16).r = 0
    THEN 4 + TrailingZeroBits(WDivSmall(ws, 16).q)
    ELSE 1 + TrailingZeroBits(WDivSmall(ws, 2).q)

\* decimal.NewFromFloatWithExponent for a finite value: mant * 2^exp2 with
\* the mantissa made odd, written as dMant / temp at the exponent and
\* rounded half up on the magnitude; an exponent below the float's own
\* binary exponent is replaced by it
DecNewFromFloatWithExponent(x, exp) ==
    IF x.mant = <<>> THEN [val |-> Big(0), exp |-> 0]
    ELSE LET z == TrailingZeroBits(ToWords(x.mant))
             mant == WShr(ToWords(x.mant), z)
             exp2 == x.e2 + z
             e == IF exp < 0 /\ exp < exp2
                  THEN (IF exp2 < 0 THEN exp2 ELSE 0)
                  ELSE exp
             p5 == IF e > 0 THEN e ELSE 0
             p2 == IF exp2 - e < 0 THEN e - exp2 ELSE 0
             m5 == IF e < 0 THEN WMulPow5(mant, -e) ELSE mant
             dMant == IF exp2 - e > 0 THEN WShl(m5, exp2 - e) ELSE m5
             temp == WShl(WMulPow5(<<1>>, p5), p2)
             halfDown == WDivSmall(temp, 2).q
         IN  [val |-> MkBig(x.neg,
                            FromWords(IF e > 0 \/ exp2 - e < 0
                                      THEN WShr(WQuoPow5(WAdd(dMant, halfDown), p5), p2)
                                      ELSE dMant)),
              exp |-> e]

\* NewFromRat(value, exp) of src/decimal.go, through float64: the Numbers it
\* can return, one unless the float64 of an integer Rat is outside int64
NewFromRat(value, exp) ==
    IF IsInt(value)
    THEN {[val |-> c, exp |-> 0] : c \in FloorInt64(RatFloat64(value))}
    ELSE {DecNewFromFloatWithExponent(RatFloat64(value), exp)}

\* decimal.DivisionPrecision: the fraction digits Decimal.Div keeps
DivisionPrecision == 16

\* Decimal.Div for integer operands at exponent 0:
\* DivRound(d2, DivisionPrecision), the quotient at 16 fraction digits
\* rounded half away from zero
DecDiv(d, d2) ==
    LET den == ToWords(d2.val.abs)
        t == WDiv(ToWords(BigMulPow10(d.val, DivisionPrecision).abs), den)
    IN  [val |-> MkBig(d.val.neg # d2.val.neg,
                       FromWords(IF AbsCmp(WMulSmall(t.r, 2), den) < 0
                                 THEN t.q
                                 ELSE WAdd(t.q, <<1>>))),
         exp |-> -DivisionPrecision]

\* NewFromRat(r, e) of src/float64.go: numerator divided by denominator,
\* then Round to e with RoundTruncate
NewFromRatDiv(r, e) ==
    Round(DecDiv([val |-> r.num, exp |-> 0], [val |-> r.den, exp |-> 0]), e, RoundTruncate)

(***************************************************************************)
(* decimal.NewFromFloat, and FromFloat64.  NewFromFloat gives the shortest *)
(* decimal that reads back as the same float64: the library's copy of      *)
(* strconv's decimal (Assign, Shift, Round) and of its roundShortest.      *)
(***************************************************************************)
\* flt.bias + 1: the least exponent, that of the denormals
MinExp == -1022

\* math.Float64bits of a finite non-zero value as newFromFloat decodes it:
\* the value is mant * 2^(exp - 52), 52 being flt.mantbits, with
\* 2^52 <= mant < 2^53, or with exp = MinExp and mant < 2^52 for a denormal
FloatBits(x) ==
    LET m == ToWords(x.mant)
        s == FloatShift(m, ToWords(Two52))
    IN  IF x.e2 - s + 52 < MinExp
        THEN [mant |-> WShl(m, x.e2 + 52 - MinExp), exp |-> MinExp]
        ELSE [mant |-> WShl(m, s), exp |-> x.e2 - s + 52]

\* d.Assign(a); d.Shift(e): the decimal of a * 2^e.  d holds the digits,
\* most significant first and without trailing zeros; dp is the place of
\* the decimal point, the value being 0.d * 10^dp; z counts the zeros trimmed
Decimal(a, e) ==
    LET ds == FromWords(IF e >= 0 THEN WShl(a, e) ELSE WMulPow5(a, -e))
        n == Len(ds)
        z == IF n = 0 THEN 0
             ELSE (CHOOSE i \in 1..n : ds[i] # 0 /\ \A j \in 1..(i - 1) : ds[j] = 0) - 1
    IN  [d |-> [i \in 1..(n - z) |-> ds[n + 1 - i]],
         dp |-> IF n = 0 THEN 0 ELSE IF e >= 0 THEN n ELSE n + e]

\* the greatest member of a set of positions, 0 if there is none
LastIndex(S) == IF S = {} THEN 0 ELSE CHOOSE i \in S : \A j \in S : j <= i

\* (*decimal).RoundDown(nd): the first nd digits, then trim
RoundDown(a, nd) ==
    IF nd < 0 \/ nd >= Len(a.d) THEN a
    ELSE LET k == LastIndex({i \in 1..nd : a.d[i] # 0})
         IN  [d |-> SubSeq(a.d, 1, k), dp |-> IF k = 0 THEN 0 ELSE a.dp]

\* (*decimal).RoundUp(nd): one more at the last of the first nd digits that
\* is not a 9; a run of nines becomes a single 1 one place higher
RoundUp(a, nd) ==
    IF nd < 0 \/ nd >= Len(a.d) THEN a
    ELSE LET k == LastIndex({i \in 1..nd : a.d[i] < 9})
         IN  IF k = 0 THEN [d |-> <<1>>, dp |-> a.dp + 1]
             ELSE [d |-> Append(SubSeq(a.d, 1, k - 1), a.d[k] + 1), dp |-> a.dp]

\* (*decimal).Round(nd): to nd digits, to the nearest.  shouldRoundUp: a
\* digit 5 that ends the decimal is exactly half-way and rounds to even
\* (the decimals here are exact, a.trunc is never set)
DecimalRound(a, nd) ==
    IF nd < 0 \/ nd >= Len(a.d) THEN a
    ELSE LET shouldRoundUp ==
                 IF a.d[nd + 1] = 5 /\ nd + 1 = Len(a.d)
                 THEN nd > 0 /\ a.d[nd] % 2 # 0
                 ELSE a.d[nd + 1] >= 5
         IN  IF shouldRoundUp THEN RoundUp(a, nd) ELSE RoundDown(a, nd)

RECURSIVE ShortestFrom(_, _, _, _, _, _)
\* the loop of roundShortest from its turn ui (counted from 1): walk along
\* the digits until d has distinguished itself from lower and upper, then
\* round there.  The three decimals are aligned on the decimal point: upper
\* is the longest, and mi and li are the places in d and lower under the
\* place ui of upper.  upperdelta remembers how far upper is above d in
\* the digits read so far: 0 not at all, 1 by one in the last place (and
\* nines against zeros since), 2 by more
ShortestFrom(d, lower, upper, inclusive, ui, upperdelta) ==
    LET mi == ui - upper.dp + d.dp
        li == ui - upper.dp + lower.dp
        l == IF li >= 1 /\ li <= Len(lower.d) THEN lower.d[li] ELSE 0
        m == IF mi >= 1 THEN d.d[mi] ELSE 0
        u == Dig(upper.d, ui)
        okdown == l # m \/ (inclusive /\ li = Len(lower.d))
        delta == IF upperdelta = 0 /\ m + 1 < u THEN 2
                 ELSE IF upperdelta = 0 /\ m # u THEN 1
                 ELSE IF upperdelta = 1 /\ (m # 9 \/ u # 0) THEN 2
                 ELSE upperdelta
        okup == delta > 0 /\ (inclusive \/ delta > 1 \/ ui < Len(upper.d))
    IN  IF mi > Len(d.d) THEN d
        ELSE IF okdown /\ okup THEN DecimalRound(d, mi)
        ELSE IF okdown THEN RoundDown(d, mi)
        ELSE IF okup THEN RoundUp(d, mi)
        ELSE ShortestFrom(d, lower, upper, inclusive, ui + 1, delta)

\* roundShortest(&d, mant, exp, flt): d is already shortest when its last
\* digit weighs more than the float's last bit; otherwise it is cut where
\* it still lies between upper and lower, the half-way points to the next
\* float64 above and below (the one below is nearer when mant is 2^52),
\* which are themselves possible only for an even mant
RoundShortest(d, mant, exp) ==
    IF mant = <<>> THEN [d |-> <<>>, dp |-> d.dp]
    ELSE IF exp > MinExp /\ 332 * (d.dp - Len(d.d)) >= 100 * (exp - 52)
    THEN d
    ELSE LET upper == Decimal(WAdd(WMulSmall(mant, 2), <<1>>), exp - 52 - 1)
             same == AbsCmp(mant, ToWords(Two52)) > 0 \/ exp = MinExp
             mantlo == IF same THEN WSub(mant, <<1>>) ELSE WSub(WMulSmall(mant, 2), <<1>>)
             explo == IF same THEN exp ELSE exp - 1
             lower == Decimal(WAdd(WMulSmall(mantlo, 2), <<1>>), explo - 52 - 1)
         IN  ShortestFrom(d, lower, upper, mant[1] % 2 = 0, 1, 0)

\* decimal.NewFromFloat for a finite value: 0 is New(0, 0); otherwise
\* newFromFloat: the digits roundShortest leaves are the coefficient and
\* dp - nd is the exponent
DecNewFromFloat(x) ==
    IF x.mant = <<>> THEN New(0, 0)
    ELSE LET b == FloatBits(x)
             d == RoundShortest(Decimal(b.mant, b.exp - 52), b.mant, b.exp)
             nd == Len(d.d)
         IN  [val |-> MkBig(x.neg, [i \in 1..nd |-> d.d[nd + 1 - i]]),
              exp |-> d.dp - nd]

\* FromFloat64(f): return newDecimal.NewFromFloat(f), nil: the outcomes of
\* the call.  No path returns a non-nil error.  On an infinity or a NaN the
\* library's NewFromFloat either panics, as shopspring/decimal v1.3.1 does,
\* or returns the zero Number, as TestFromFloat64 expects of the library the
\* package is built with
FromFloat64(x) ==
    IF x.kind = "finite"
    THEN {[outcome |-> "value", d |-> DecNewFromFloat(x)]}
    ELSE {[outcome |-> "panic", d |-> New(0, 0)],
          [outcome |-> "value", d |-> New(0, 0)]}

(***************************************************************************)
(* The *big.Int cells Numbers point to.  A Number is copied by value, its  *)
(* coefficient by pointer: two Numbers may share one cell.                 *)
(***************************************************************************)
\* the cell of the operand's coefficient
VP == 1
\* the cell of a result that does not share the operand's
RP == 2
\* the cell of the receiver of the last call, as the call left it
PP == 3
\* the cells a call allocates
T1 == 4
T2 == 5

\* a heap: the five cells in the order VP, RP, PP, T1, T2
Store(h, a, x) == [h EXCEPT ![a] = x]

\* the Number a pointer and an exponent stand for
At(h, d) == [val |-> h[d.ptr], exp |-> d.exp]

\* d.Coefficient(): a copy of the coefficient, in a new cell t
Coefficient(h, p, t) == [cell |-> Store(h, t, h[p]), ptr |-> t]

\* what a method of Decimal returns: its receiver d (the same cell) when same,
\* otherwise the Number r with its coefficient in a new cell
Returned(h, d, r, same) ==
    IF same THEN [cell |-> h, ptr |-> d.ptr, exp |-> d.exp]
    ELSE [cell |-> Store(h, T1, r.val), ptr |-> T1, exp |-> r.exp]

\* Rescale on the heap: d itself when the exponent is equal; otherwise
\* value := new(big.Int).Set(d.Coefficient()), value.Quo or value.Mul in
\* place, and NewFromBigInt(value, exp), which copies value once more
HeapRescale(h, d, exp) ==
    IF d.exp = exp THEN [cell |-> h, ptr |-> d.ptr, exp |-> exp]
    ELSE LET c     == Coefficient(h, d.ptr, T1)
             value == c.ptr
             h1    == Store(c.cell, value,
                            IF exp > d.exp
                            THEN BigQuoPow10(c.cell[value], exp - d.exp)
                            ELSE BigMulPow10(c.cell[value], d.exp - exp))
         IN  [cell |-> Store(h1, T2, h1[value]), ptr |-> T2, exp |-> exp]

\* Round on the heap.  RoundFloor and RoundCeil return their receiver when it
\* is already a multiple of the unit, and otherwise a new Number.  The
\* library's Round, which RoundBank calls, rescales its receiver to one digit
\* more than asked for and rounds that big.Int where it stands.  The rescaled
\* Number has a big.Int of its own whenever the exponent changes; when the
\* receiver already has that one digit more, nothing is rescaled, and the
\* sources do not say whether Round then works on a copy or on the receiver's
\* own big.Int (the Rescale the package copied from the library returns its
\* argument on an equal exponent): inplace is that choice
HeapRound(h, d, exp, rule, inplace) ==
    IF exp <= d.exp THEN HeapRescale(h, d, exp)
    ELSE LET dv    == At(h, d)
             exact == DecEqual(dv, DecRescale(dv, exp))
             own   == inplace /\ exp = d.exp + 1
             lib   == CASE rule = RoundBankers /\ own ->
                               [cell |-> Store(h, d.ptr, DecRoundBank(dv, -exp).val),
                                ptr |-> d.ptr, exp |-> exp]
                        [] rule = RoundMath /\ own ->
                               [cell |-> Store(h, d.ptr, DecRound(dv, -exp).val),
                                ptr |-> d.ptr, exp |-> exp]
                        [] rule = RoundBankers ->
                               Returned(h, d, DecRoundBank(dv, -exp), FALSE)
                        [] rule = RoundMath ->
                               Returned(h, d, DecRound(dv, -exp), FALSE)
                        [] rule = RoundFloor ->
                               Returned(h, d, DecRoundFloor(dv, -exp), exact)
                        [] rule = RoundCeil ->
                               Returned(h, d, DecRoundCeil(dv, -exp), exact)
                        [] OTHER -> Returned(h, d, dv, TRUE)
         IN  HeapRescale(lib.cell, [ptr |-> lib.ptr, exp |-> lib.exp], exp)

(***************************************************************************)
(* The state: an operand, the last call made on it and what it returned.   *)
(***************************************************************************)
VARIABLES
    v,        \* the operand (receiver or first argument)
    op,       \* the function last called: "New" before any call
    exp,      \* its exponent argument (of a call made on a new Number)
    rule,     \* its rounding rule argument (of a call made on a new Number)
    w,        \* its second operand (Add, Cmp, Mul, MulInt); in a sequence of
              \* calls, its receiver as it was before the call
    res,      \* the Number it returned
    ival,     \* the integer it returned (ScaledVal, Cmp)
    outcome,  \* "value" when it returned, "error" or "panic" when it did not
    str,      \* the text it was given (FromString) or returned (String)
    f,        \* the float64 it was given (FromFloat64)
    cell,     \* the *big.Int cells the operand and the result point to
    rp,       \* the cell the coefficient of res lives in
    trace     \* the calls made so far, when the state follows a sequence of calls

vars == <<v, op, exp, rule, w, res, ival, outcome, str, f, cell, rp, trace>>

OperandVals == {Big(n) : n \in -MaxVal..MaxVal}
\* coefficients beyond the int64 range, as FromString or Mul produce them
WideVals == {MkBig(neg, Zeros(WideDigits) \o <<1>>) : neg \in BOOLEAN}
OperandExps == -MaxExp..(MaxExp - 1)
Operands == [val : OperandVals \cup WideVals, exp : OperandExps]
SecondOperands == [val : {Big(n) : n \in -MaxW..MaxW}, exp : OperandExps]
\* exponent arguments are small, so that int32(exp) is exp itself
TargetExps == (-MaxExp - 2)..MaxExp
DeepExps(d) == (d.exp - MaxShift)..MaxExp
Rules == {RoundTruncate, RoundFloor, RoundCeil, RoundMath, RoundBankers}

\* the state before any call: op says what is at hand
Fresh(o) ==
    /\ op = o
    /\ exp = v.exp
    /\ rule = RoundTruncate
    /\ w = New(0, 0)
    /\ res = v
    /\ ival = Big(0)
    /\ outcome = "value"
    /\ cell = <<v.val, Big(0), Big(0)>>
    /\ rp = VP
    /\ trace = <<>>

\* a Number just constructed: no call made on it yet
Constructed ==
    /\ Fresh("New")
    /\ str = <<>>
    /\ f = Float(FALSE, <<>>, 0)

Init ==
    /\ v \in Operands
    /\ Constructed

\* res := Round(v, e, r)
DoRound(e, r) ==
    /\ op = "New"
    /\ op' = "Round"
    /\ exp' = e
    /\ rule' = r
    /\ res' = Round(v, e, r)
    /\ outcome' = "value"
    /\ UNCHANGED <<v, w, ival, str, f, cell, rp, trace>>

\* res := Rescale(v, e)
DoRescale(e) ==
    /\ op = "New"
    /\ op' = "Rescale"
    /\ exp' = e
    /\ res' = Rescale(v, e)
    /\ outcome' = "value"
    /\ UNCHANGED <<v, rule, w, ival, str, f, cell, rp, trace>>

\* ival := ScaledVal(v, e)
DoScaledVal(e) ==
    /\ op = "New"
    /\ op' = "ScaledVal"
    /\ exp' = e
    /\ ival' = ScaledVal(v, e)
    /\ outcome' = "value"
    /\ UNCHANGED <<v, rule, w, res, str, f, cell, rp, trace>>

\* res := v.Add(b)
DoAdd(b) ==
    /\ op = "New"
    /\ op' = "Add"
    /\ w' = b
    /\ res' = DecAdd(v, b)
    /\ outcome' = "value"
    /\ UNCHANGED <<v, exp, rule, ival, str, f, cell, rp, trace>>

\* first operands of Cmp, Mul and MulInt
ArithOperands == [val : {Big(n) : n \in -MaxA..MaxA} \cup WideVals, exp : OperandExps]

InitArith ==
    /\ v \in ArithOperands
    /\ Constructed

\* second operands of Cmp and Mul: narrow and wide coefficients
WideSeconds == [val : WideVals, exp : OperandExps]
Factors == SecondOperands \cup WideSeconds

\* ival := v.Cmp(b)
DoCmp(b) ==
    /\ op = "New"
    /\ op' = "Cmp"
    /\ w' = b
    /\ ival' = Big(DecCmp(v, b))
    /\ outcome' = "value"
    /\ UNCHANGED <<v, exp, rule, res, str, f, cell, rp, trace>>

\* res := v.Mul(b)
DoMul(b) ==
    /\ op = "New"
    /\ op' = "Mul"
    /\ w' = b
    /\ res' = DecMul(v, b)
    /\ outcome' = "value"
    /\ UNCHANGED <<v, exp, rule, ival, str, f, cell, rp, trace>>

\* res := MulInt(v, n); w is the Number d the function builds from n
DoMulInt(n) ==
    /\ op = "New"
    /\ op' = "MulInt"
    /\ w' = DecNewFromInt(n)
    /\ res' = MulInt(v, n)
    /\ outcome' = "value"
    /\ UNCHANGED <<v, exp, rule, ival, str, f, cell, rp, trace>>

NextArith ==
    \/ \E b \in Factors : DoCmp(b)
    \/ \E b \in Factors : DoMul(b)
    \/ \E n \in -MaxW..MaxW : DoMulInt(n)

\* comparison and multiplication of constructed Numbers
SpecArith == InitArith /\ [][NextArith]_vars

\* the characters the input strings are made of
Chars == {"0", "1", "2", "-", "+", ".", "e", " ", "a"}
\* every string of at most MaxStrLen characters
ShortStrings == UNION {[1..n -> Chars] : n \in 0..MaxStrLen}
\* longer literals of TestNumberUnmarshalText, and "1e3"
Literals ==
    { <<"-", "0", ".", "0", "0", "1", "2", "3", "4", "0">>,
      <<"0", ".", "0", "0", "1", "2", "3", "4", "0">>,
      <<"-", "0", ".", "0", "0", "0", "0", "0", "0", "0">>,
      <<"0", ".", "0", "0", "0", "0", "0", "0", "0">>,
      <<"-", "0", ".", "0", "0", "1", "2", "3", "4">>,
      <<"-", "1", "2", "3", "4", "0">>,
      <<"1", "2", "3", ".", "4">>,
      <<"1", ",", "2">>,
      <<"a", "3", ".", "9">>,
      <<"1", "e", "3">>,
      <<"1", "E", "3">>,
      <<"1", "2", "3", "4", "5", "6", "7", "8", "9", "0",
        "1", "2", "3", "4", "5", "6", "7", "8", "9", "0", "1">> }
\* the Numbers String is called on
TextOperands == [val : OperandVals \cup WideVals, exp : TargetExps]

\* either a constructed Number, or a text and the zero Number to parse it into
InitText ==
    \/ /\ v \in TextOperands
       /\ Constructed
    \/ /\ v = New(0, 0)
       /\ Fresh("Text")
       /\ str \in ShortStrings \cup Literals
       /\ f = Float(FALSE, <<>>, 0)

\* str := v.String()
DoString ==
    /\ op = "New"
    /\ op' = "String"
    /\ str' = String(v)
    /\ outcome' = "value"
    /\ UNCHANGED <<v, exp, rule, w, res, ival, f, cell, rp, trace>>

\* res, err := FromString(str), on a given text or on the text String wrote
DoFromString ==
    /\ op \in {"Text", "String"}
    /\ op' = IF op = "String" THEN "RoundTrip" ELSE "FromString"
    /\ res' = FromString(str).d
    /\ outcome' = IF FromString(str).ok THEN "value" ELSE "error"
    /\ UNCHANGED <<v, exp, rule, w, ival, str, f, cell, rp, trace>>

NextText ==
    \/ DoString
    \/ DoFromString

\* formatting and parsing
SpecText == InitText /\ [][NextText]_vars

\* the arguments of many digits, those of TestFromFloat64: 0.1 is the
\* float64 3602879701896397 * 2^-55, 123.456 is 8687443681197687 * 2^-46,
\* math.MaxFloat64 is (2^53 - 1) * 2^971, math.SmallestNonzeroFloat64 the
\* denormal 2^-1074; and 2^-24, a power of two, whose neighbour below is
\* nearer than the one above; and 7788823156001337 * 2^6 and
\* 8693270950585937 * 2^26, where upper is one above d in the sixteenth
\* digit and the seventeenth is read against a zero of upper
TestFloat(neg, name) ==
    CASE name = "0.1" -> Float(neg, Rev(<<3,6,0,2,8,7,9,7,0,1,8,9,6,3,9,7>>), -55)
      [] name = "123.456" -> Float(neg, Rev(<<8,6,8,7,4,4,3,6,8,1,1,9,7,6,8,7>>), -46)
      [] name = "MaxFloat64" -> Float(neg, Rev(<<9,0,0,7,1,9,9,2,5,4,7,4,0,9,9,1>>), 971)
      [] name = "SmallestNonzeroFloat64" -> Float(neg, <<1>>, -1074)
      [] name = "2^-24" -> Float(neg, <<1>>, -24)
      [] name = "498484681984085570" ->
             Float(neg, Rev(<<7,7,8,8,8,2,3,1,5,6,0,0,1,3,3,7>>), 6)
      [] name = "5.8339553793802237e+23" ->
             Float(neg, Rev(<<8,6,9,3,2,7,0,9,5,0,5,8,5,9,3,7>>), 26)

\* the arguments of few digits: mant * 2^e2 for odd mant
FewDigitFloats ==
    {Float(neg, NatDigits(m), e) : neg \in BOOLEAN,
                                   m \in {k \in 1..MaxMant : k % 2 = 1},
                                   e \in -MaxBin..MaxBin}

\* the float64 arguments: finite ones, zero, infinities and NaN
Floats ==
    FewDigitFloats
        \cup {TestFloat(FALSE, "0.1"), TestFloat(TRUE, "0.1"),
              TestFloat(FALSE, "123.456"),
              TestFloat(FALSE, "MaxFloat64"), TestFloat(TRUE, "MaxFloat64"),
              TestFloat(FALSE, "SmallestNonzeroFloat64"), TestFloat(FALSE, "2^-24"),
              TestFloat(FALSE, "498484681984085570"),
              TestFloat(TRUE, "498484681984085570"),
              TestFloat(FALSE, "5.8339553793802237e+23")}
        \cup {Float(FALSE, <<>>, 0)} \cup NonFinite

InitFloat ==
    /\ v = New(0, 0)
    /\ Fresh("Float")
    /\ str = <<>>
    /\ f \in Floats

\* res, err := FromFloat64(f)
DoFromFloat64 ==
    /\ op = "Float"
    /\ op' = "FromFloat64"
    /\ \E r \in FromFloat64(f) :
          /\ outcome' = r.outcome
          /\ res' = r.d
    /\ UNCHANGED <<v, exp, rule, w, ival, str, f, cell, rp, trace>>

NextFloat == DoFromFloat64

\* conversion from float64
SpecFloat == InitFloat /\ [][NextFloat]_vars

\* the Numbers a sequence of calls starts from
SeqOperands == [val : {Big(n) : n \in -MaxSeqVal..MaxSeqVal},
                exp : -MaxSeqExp..MaxSeqExp]
SeqExps == -MaxSeqExp..MaxSeqExp

InitSeq ==
    /\ v \in SeqOperands
    /\ Constructed

\* the Number the next call is made on: the last result, which at first is
\* the operand itself (a copy of the struct, the same cell)
Cur == [ptr |-> rp, exp |-> res.exp]
\* the heap of a call: the cells of the state and the two the call may allocate
Heap == cell \o <<Big(0), Big(0)>>
\* the second operand of a binary call: the operand or the last result
Arg(y) == IF y = "operand" THEN [ptr |-> VP, exp |-> v.exp] ELSE Cur

\* the state after a call named name that left the heap and the Number out:
\* the result takes the place of the last one, the cell of the receiver is
\* kept as the call left it, and w is the receiver as it was before the call;
\* own says that the call worked on the big.Int of its receiver
Settle(name, out, own) ==
    /\ Len(trace) < MaxSteps
    /\ op' = name
    /\ trace' = Append(trace, [op |-> name, shared |-> rp = VP, own |-> own])
    /\ w' = res
    /\ res' = At(out.cell, out)
    /\ rp' = IF out.ptr = VP THEN VP ELSE RP
    /\ cell' = << out.cell[VP],
                  IF out.ptr = VP THEN Big(0) ELSE out.cell[out.ptr],
                  out.cell[rp] >>
    /\ outcome' = "value"
    /\ UNCHANGED <<v, exp, rule, str, f>>

\* res = Round(res, e, r)
SeqRound(e, r) ==
    \E inplace \in BOOLEAN :
        /\ Settle("Round", HeapRound(Heap, Cur, e, r, inplace),
                  inplace /\ e = res.exp + 1 /\ r \in {RoundBankers, RoundMath})
        /\ UNCHANGED ival

\* res = Rescale(res, e)
SeqRescale(e) ==
    /\ Settle("Rescale", HeapRescale(Heap, Cur, e), FALSE)
    /\ UNCHANGED ival

\* ival = ScaledVal(res, e): the rescaled Number is dropped
SeqScaledVal(e) ==
    LET out == HeapRescale(Heap, Cur, e)
    IN  /\ Settle("ScaledVal", [cell |-> out.cell, ptr |-> rp, exp |-> res.exp], FALSE)
        /\ ival' = BigInt64(out.cell[out.ptr])

\* res = MulInt(res, n)
SeqMulInt(n) ==
    /\ Settle("MulInt", Returned(Heap, Cur, MulInt(At(Heap, Cur), n), FALSE), FALSE)
    /\ UNCHANGED ival

\* res = res.Add(y)
SeqAdd(y) ==
    /\ Settle("Add", Returned(Heap, Cur, DecAdd(At(Heap, Cur), At(Heap, Arg(y))), FALSE), FALSE)
    /\ UNCHANGED ival

\* res = res.Sub(y)
SeqSub(y) ==
    /\ Settle("Sub", Returned(Heap, Cur, DecSub(At(Heap, Cur), At(Heap, Arg(y))), FALSE), FALSE)
    /\ UNCHANGED ival

\* res = res.Mul(y)
SeqMul(y) ==
    /\ Settle("Mul", Returned(Heap, Cur, DecMul(At(Heap, Cur), At(Heap, Arg(y))), FALSE), FALSE)
    /\ UNCHANGED ival

\* res = res.Neg()
SeqNeg ==
    /\ Settle("Neg", Returned(Heap, Cur, DecNeg(At(Heap, Cur)), FALSE), FALSE)
    /\ UNCHANGED ival

\* ival = res.Cmp(y)
SeqCmp(y) ==
    /\ Settle("Cmp", [cell |-> Heap, ptr |-> rp, exp |-> res.exp], FALSE)
    /\ ival' = Big(DecCmp(At(Heap, Cur), At(Heap, Arg(y))))

NextSeq ==
    \/ \E e \in SeqExps, r \in Rules : SeqRound(e, r)
    \/ \E e \in SeqExps : SeqRescale(e)
    \/ \E e \in SeqExps : SeqScaledVal(e)
    \/ \E n \in {-1, 0, 3} : SeqMulInt(n)
    \/ \E y \in {"operand", "result"} : SeqAdd(y)
    \/ \E y \in {"operand", "result"} : SeqSub(y)
    \/ \E y \in {"operand", "result"} : SeqMul(y)
    \/ SeqNeg
    \/ \E y \in {"operand", "result"} : SeqCmp(y)

\* sequences of calls, each made on the result of the one before
SpecSeq == InitSeq /\ [][NextSeq]_vars

(***************************************************************************)
(* Round called with a RoundRule that is none of the declared constants:   *)
(* RoundRule is an int, so any integer can be passed.                      *)
(***************************************************************************)
MaxUnknown == 2
UnknownRules ==
    ((RoundTruncate - MaxUnknown)..(RoundTruncate - 1))
        \cup ((RoundBankers + 1)..(RoundBankers + MaxUnknown))

NextRule == \E e \in TargetExps, r \in UnknownRules : DoRound(e, r)

SpecRule == Init /\ [][NextRule]_vars

(***************************************************************************)
(* NewFromRat: the Rat is held as its numerator in v and its denominator   *)
(* in w, both at exponent 0.                                               *)
(***************************************************************************)
MaxNum == 24
MaxDen == 6
MaxRatShift == 10

\* the Rats of TestFromRat; 7/40000, a denominator of more than one limb whose
\* float64 lies just below the fraction; (2^54 + 1)/2, a value above 2^53;
\* and the integers 2^63 - 1, -2^63 and -2^64, whose float64 are 2^63, outside
\* int64, -2^63, the lowest int64, and -2^64, outside int64
TestRats ==
    {NewRat(1234, 100), NewRat(1000000000, 3), NewRat(7, 40000),
     [num |-> MkBig(FALSE, Rev(<<1,8,0,1,4,3,9,8,5,0,9,4,8,1,9,8,5>>)), den |-> Big(2)],
     [num |-> MkBig(FALSE, Rev(<<9,2,2,3,3,7,2,0,3,6,8,5,4,7,7,5,8,0,7>>)), den |-> Big(1)],
     [num |-> MkBig(TRUE, Two63), den |-> Big(1)],
     [num |-> MkBig(TRUE, Two64), den |-> Big(1)]}
Rats == {NewRat(a, b) : a \in -MaxNum..MaxNum, b \in 1..MaxDen} \cup TestRats
RatExps == (-MaxRatShift)..MaxExp

\* the Rat at hand
TheRat == [num |-> v.val, den |-> w.val]

InitRat ==
    /\ \E r \in Rats :
          /\ v = [val |-> r.num, exp |-> 0]
          /\ w = [val |-> r.den, exp |-> 0]
    /\ op = "Rat"
    /\ exp = 0
    /\ rule = RoundTruncate
    /\ res = v
    /\ ival = Big(0)
    /\ outcome = "value"
    /\ cell = <<v.val, Big(0), Big(0)>>
    /\ rp = VP
    /\ trace = <<>>
    /\ str = <<>>
    /\ f = Float(FALSE, <<>>, 0)

\* res := NewFromRat(r, e), src/decimal.go
DoNewFromRat(e) ==
    /\ op = "Rat"
    /\ op' = "NewFromRat"
    /\ exp' = e
    /\ res' \in NewFromRat(TheRat, e)
    /\ outcome' = "value"
    /\ UNCHANGED <<v, w, rule, ival, str, f, cell, rp, trace>>

\* res := NewFromRat(r, e), src/float64.go
DoNewFromRatDiv(e) ==
    /\ op = "Rat"
    /\ op' = "NewFromRatDiv"
    /\ exp' = e
    /\ res' = NewFromRatDiv(TheRat, e)
    /\ outcome' = "value"
    /\ UNCHANGED <<v, w, rule, ival, str, f, cell, rp, trace>>

NextRat ==
    \/ \E e \in RatExps : DoNewFromRat(e)
    \/ \E e \in RatExps : DoNewFromRatDiv(e)

SpecRat == InitRat /\ [][NextRat]_vars

Next ==
    \/ \E e \in TargetExps, r \in Rules : DoRound(e, r)
    \/ \E e \in DeepExps(v) : DoRescale(e)
    \/ \E e \in DeepExps(v) : DoScaledVal(e)
    \/ \E b \in SecondOperands : DoAdd(b)

Spec == Init /\ [][Next]_vars

(***************************************************************************)
(* Integer arithmetic the properties are stated in.                        *)
(***************************************************************************)
RECURSIVE Pow10(_)
Pow10(k) == IF k <= 0 THEN 1 ELSE 10 * Pow10(k - 1)

AbsI(x) == IF x < 0 THEN -x ELSE x
SgnI(x) == IF x < 0 THEN -1 ELSE IF x > 0 THEN 1 ELSE 0
MinI(x, y) == IF x < y THEN x ELSE y
\* the quotient of m by P truncated toward zero
TruncQuo(m, P) == SgnI(m) * (AbsI(m) \div P)

\* an operand whose coefficient is an ordinary (narrow) integer
Small(d) == d.val \in OperandVals
\* a wide operand +-10^WideDigits multiplied by 10^j (j may be negative)
WideScaled(d, j) == MkBig(d.val.neg, Zeros(WideDigits + j) \o <<1>>)

\* the call under study is a Round that loses precision
RoundsUp(r) == op = "Round" /\ rule = r /\ exp > v.exp

(***************************************************************************)
(* C1: Round(v, exp, RoundBankers) with exp above v's exponent returns, at  *)
(* exponent exp, the quotient q of m by 10^k rounded to the nearest        *)
(* integer, a tie (remainder magnitude exactly 5*10^(k-1)) resolving to    *)
(* the even quotient, for positive and negative m alike.                   *)
(***************************************************************************)
C1_BankersNearestEven ==
    RoundsUp(RoundBankers) =>
        /\ res.exp = exp
        /\ Small(v) =>
              LET m == IntOf(v.val)
                  P == Pow10(exp - v.exp)
                  q == IntOf(res.val)
              IN  /\ 2 * AbsI(m - q * P) <= P
                  /\ (2 * AbsI(m - q * P) = P) => (q % 2 = 0)
        /\ ~Small(v) => res.val = WideScaled(v, v.exp - exp)

\* a negative tie two digits wide, resolved away from zero to the even quotient
C1_Witness ==
    /\ RoundsUp(RoundBankers)
    /\ Small(v)
    /\ exp - v.exp = 2
    /\ IntOf(v.val) = -150
    /\ IntOf(res.val) = -2

(***************************************************************************)
(* C2: Round(v, exp, RoundMath) with exp above v's exponent returns the    *)
(* truncated quotient moved one unit away from zero exactly when the       *)
(* leading dropped digit is >= 5, and the truncated quotient otherwise; a  *)
(* tie goes away from zero for both signs.                                 *)
(***************************************************************************)
C2_MathHalfAwayFromZero ==
    RoundsUp(RoundMath) =>
        /\ res.exp = exp
        /\ Small(v) =>
              LET m    == IntOf(v.val)
                  k    == exp - v.exp
                  P    == Pow10(k)
                  lead == (AbsI(m) % P) \div Pow10(k - 1)
              IN  IntOf(res.val) =
                     IF lead >= 5 THEN TruncQuo(m, P) + SgnI(m) ELSE TruncQuo(m, P)
        /\ ~Small(v) => res.val = WideScaled(v, v.exp - exp)

\* -0.45 at exponent -1 is -0.5
C2_Witness ==
    /\ RoundsUp(RoundMath)
    /\ v = New(-45, -2)
    /\ exp = -1
    /\ res = New(-5, -1)

(***************************************************************************)
(* C3: Round(v, exp, RoundFloor) with exp above v's exponent returns the   *)
(* greatest multiple of 10^exp that is <= v: the truncated quotient, less  *)
(* one only when v is negative and the remainder is not zero.              *)
(***************************************************************************)
C3_FloorTowardNegativeInfinity ==
    RoundsUp(RoundFloor) =>
        /\ res.exp = exp
        /\ Small(v) =>
              LET m == IntOf(v.val)
                  P == Pow10(exp - v.exp)
                  q == IntOf(res.val)
              IN  /\ q * P <= m
                  /\ m < (q + 1) * P
                  /\ q = IF m < 0 /\ AbsI(m) % P # 0
                         THEN TruncQuo(m, P) - 1
                         ELSE TruncQuo(m, P)
        /\ ~Small(v) => res.val = WideScaled(v, v.exp - exp)

\* -1.45 at exponent -1 is -1.5
C3_Witness ==
    /\ RoundsUp(RoundFloor)
    /\ v = New(-145, -2)
    /\ exp = -1
    /\ res = New(-15, -1)

(***************************************************************************)
(* C4: Round(v, exp, RoundCeil) with exp above v's exponent returns the    *)
(* least multiple of 10^exp that is >= v: the truncated quotient, plus one *)
(* only when v is positive and the remainder is not zero.                  *)
(***************************************************************************)
C4_CeilTowardPositiveInfinity ==
    RoundsUp(RoundCeil) =>
        /\ res.exp = exp
        /\ Small(v) =>
              LET m == IntOf(v.val)
                  P == Pow10(exp - v.exp)
                  q == IntOf(res.val)
              IN  /\ q * P >= m
                  /\ m > (q - 1) * P
                  /\ q = IF m > 0 /\ AbsI(m) % P # 0
                         THEN TruncQuo(m, P) + 1
                         ELSE TruncQuo(m, P)
        /\ ~Small(v) => res.val = WideScaled(v, v.exp - exp)

\* 1.45 at exponent -1 is 1.5
C4_Witness ==
    /\ RoundsUp(RoundCeil)
    /\ v = New(145, -2)
    /\ exp = -1
    /\ res = New(15, -1)

(***************************************************************************)
(* C5: Round(v, exp, RoundTruncate) with exp above v's exponent returns    *)
(* the quotient of m by 10^(exp-e) truncated toward zero, at exponent exp, *)
(* for both signs; the result's magnitude never exceeds that of v.         *)
(***************************************************************************)
C5_TruncateTowardZero ==
    RoundsUp(RoundTruncate) =>
        /\ res.exp = exp
        /\ Small(v) =>
              LET m == IntOf(v.val)
                  P == Pow10(exp - v.exp)
                  q == IntOf(res.val)
              IN  /\ q = TruncQuo(m, P)
                  /\ AbsI(q * P) <= AbsI(m)
        /\ ~Small(v) => res.val = WideScaled(v, v.exp - exp)
        /\ DecCmp(DecAbs(res), DecAbs(v)) <= 0

\* -1.45 at exponent -1 is -1.4
C5_Witness ==
    /\ RoundsUp(RoundTruncate)
    /\ v = New(-145, -2)
    /\ exp = -1
    /\ res = New(-14, -1)

(***************************************************************************)
(* C6: for exp <= v's exponent e and every rule, Round(v, exp, rule) is    *)
(* exact and the same for all rules: coefficient m*10^(e-exp) at exponent  *)
(* exp, the same value as v; exp = e returns v unchanged.                  *)
(***************************************************************************)
C6_RoundToFinerIsExact ==
    (op = "Round" /\ exp <= v.exp) =>
        /\ res.exp = exp
        /\ Small(v) => IntOf(res.val) = IntOf(v.val) * Pow10(v.exp - exp)
        /\ ~Small(v) => res.val = WideScaled(v, v.exp - exp)
        /\ DecCmp(res, v) = 0
        /\ exp = v.exp => res = v
        /\ \A r \in Rules : Round(v, exp, r) = res

\* 1.23 at exponent -4 is 1.2300, under a rule other than truncation
C6_Witness ==
    /\ op = "Round"
    /\ rule = RoundBankers
    /\ v = New(123, -2)
    /\ exp = -4
    /\ res = New(12300, -4)

(***************************************************************************)
(* C7: for every v, target exponent and rule, the result of Round has      *)
(* exponent exactly exp, also when the rounded quotient is 0 and when a    *)
(* directed rule finds v an exact multiple of 10^exp.                      *)
(***************************************************************************)
C7_RoundExponentIsTarget ==
    op = "Round" => res.exp = exp

\* -0.50 at exponent 0 under RoundBankers is the zero value at exponent 0
C7_Witness ==
    /\ RoundsUp(RoundBankers)
    /\ v = New(-50, -2)
    /\ exp = 0
    /\ res = New(0, 0)

\* 0.40 is a multiple of 10^-1: RoundFloor returns it at exponent -1
C7_WitnessExact ==
    /\ RoundsUp(RoundFloor)
    /\ v = New(40, -2)
    /\ exp = -1
    /\ res = New(4, -1)

(***************************************************************************)
(* C8: rescaling to a finer exponent (Rescale, or Round/ScaledVal with exp *)
(* below the current exponent) fails, returning no value, whenever the     *)
(* shift is more than 18 digits or the scaled coefficient does not fit a   *)
(* signed 64-bit integer.  The code has no failing path: this is violated. *)
(***************************************************************************)
C8_FinerRescaleFails ==
    (/\ op \in {"Rescale", "Round", "ScaledVal"}
     /\ exp < v.exp
     /\ \/ v.exp - exp > 18
        \/ ~FitsInt64(BigMulPow10(v.val, v.exp - exp)))
        => outcome = "panic"

(***************************************************************************)
(* C9: for exp above d's exponent ScaledVal(d, exp) returns the quotient   *)
(* of m by 10^(exp-e) truncated toward zero, and for exp = e it returns m. *)
(* Violated for a coefficient whose quotient is beyond int64: the value    *)
(* returned is the quotient's low 64 bits.                                 *)
(***************************************************************************)
C9_ScaledValTruncates ==
    (op = "ScaledVal" /\ exp >= v.exp) =>
        /\ Small(v) =>
              IntOf(ival) = TruncQuo(IntOf(v.val), Pow10(exp - v.exp))
        /\ ~Small(v) => ival = WideScaled(v, v.exp - exp)

\* the part of C9 that holds: the truncated quotient, for both signs, whenever
\* it is within int64
C9_QuotientWithinInt64 ==
    (/\ op = "ScaledVal"
     /\ exp >= v.exp
     /\ FitsInt64(BigQuoPow10(v.val, exp - v.exp))
     /\ Small(v))
        => IntOf(ival) = TruncQuo(IntOf(v.val), Pow10(exp - v.exp))

(***************************************************************************)
(* C10: a.Add(b) has exponent min(ea, eb) and coefficient                  *)
(* ma*10^(ea-min) + mb*10^(eb-min): exact, not normalized, and the same    *)
(* pair for Add(a, b) and Add(b, a).                                       *)
(***************************************************************************)
C10_AddAlignsToFinerExponent ==
    op = "Add" =>
        LET lo == MinI(v.exp, w.exp)
        IN  /\ res.exp = lo
            /\ Small(v) =>
                  IntOf(res.val) = IntOf(v.val) * Pow10(v.exp - lo)
                                     + IntOf(w.val) * Pow10(w.exp - lo)
            /\ ~Small(v) =>
                  res.val = BigAdd(WideScaled(v, v.exp - lo),
                                   Big(IntOf(w.val) * Pow10(w.exp - lo)))
            /\ DecAdd(w, v) = res

\* 0.78 + 0.02 = 0.80 at exponent -2: the trailing zero stays
C10_Witness ==
    /\ op = "Add"
    /\ v = New(78, -2)
    /\ w = New(2, -2)
    /\ res = New(80, -2)

\* 0 + 0.00 = 0.00 at exponent -2
C10_WitnessZero ==
    /\ op = "Add"
    /\ v = New(0, 0)
    /\ w = New(0, -2)
    /\ res = New(0, -2)

(***************************************************************************)
(* Helpers of the comparison and multiplication properties.                *)
(***************************************************************************)
\* a narrow second operand
SmallW(d) == d.val \in {Big(n) : n \in -MaxW..MaxW}
\* the sign of a big.Int as the properties read it off the record
SignOf(x) == IF x.abs = <<>> THEN 0 ELSE IF x.neg THEN -1 ELSE 1

(***************************************************************************)
(* C11: a.Cmp(b) is the sign of value(a) - value(b), computed on the       *)
(* denoted values and not on the stored pairs (10*10^-1 against 1*10^0 is  *)
(* 0, 50*10^-1 against 2*10^0 is 1), and Cmp(a, b) = -Cmp(b, a).           *)
(***************************************************************************)
C11_CmpIsSignOfDifference ==
    op = "Cmp" =>
        LET lo == MinI(v.exp, w.exp)
            c  == IntOf(ival)
        IN  /\ (Small(v) /\ SmallW(w)) =>
                  c = SgnI(IntOf(v.val) * Pow10(v.exp - lo)
                             - IntOf(w.val) * Pow10(w.exp - lo))
            \* |10^WideDigits * 10^e| exceeds every narrow operand's magnitude
            /\ (~Small(v) /\ SmallW(w)) => c = SignOf(v.val)
            /\ (Small(v) /\ ~SmallW(w)) => c = -SignOf(w.val)
            /\ (~Small(v) /\ ~SmallW(w)) =>
                  c = IF v.val.neg # w.val.neg THEN SignOf(v.val)
                      ELSE SignOf(v.val) * SgnI(v.exp - w.exp)
            /\ DecCmp(w, v) = -c

\* 10*10^-1 against 1*10^0: different pairs, equal values
C11_Witness ==
    /\ op = "Cmp"
    /\ v = New(10, -1)
    /\ w = New(1, 0)
    /\ ival = Big(0)

(***************************************************************************)
(* C12: a.Mul(b) has coefficient ma*mb and exponent ea+eb, with no         *)
(* alignment, rounding or normalization, and the product is exact however  *)
(* wide it is: never a value wrapped to 64 bits.                           *)
(***************************************************************************)
C12_MulIsExactProduct ==
    op = "Mul" =>
        LET neg == v.val.neg # w.val.neg
        IN  /\ res.exp = v.exp + w.exp
            /\ (Small(v) /\ SmallW(w)) =>
                  IntOf(res.val) = IntOf(v.val) * IntOf(w.val)
            /\ (~Small(v) /\ SmallW(w)) =>
                  res.val = MkBig(neg, IF w.val.abs = <<>> THEN <<>>
                                       ELSE Zeros(WideDigits) \o w.val.abs)
            /\ (Small(v) /\ ~SmallW(w)) =>
                  res.val = MkBig(neg, IF v.val.abs = <<>> THEN <<>>
                                       ELSE Zeros(WideDigits) \o v.val.abs)
            /\ (~Small(v) /\ ~SmallW(w)) =>
                  res.val = MkBig(neg, Zeros(2 * WideDigits) \o <<1>>)

\* 12*10^1 times 12*10^-2 is 144*10^-1, not 1440*10^-2 or 14.4
C12_Witness ==
    /\ op = "Mul"
    /\ v = New(12, 1)
    /\ w = New(12, -2)
    /\ res = New(144, -1)

\* a product beyond the int64 range is kept whole
C12_WitnessWide ==
    /\ op = "Mul"
    /\ ~Small(v)
    /\ ~SmallW(w)
    /\ ~FitsInt64(res.val)
    /\ res.val.abs = Zeros(2 * WideDigits) \o <<1>>

(***************************************************************************)
(* C13: MulInt(v, n) has coefficient m*n and exactly the exponent of v,    *)
(* also when the product is zero: MulInt(2*10^-1, 5) = 10*10^-1 and        *)
(* MulInt(2*10^-1, 0) = 0*10^-1.                                           *)
(***************************************************************************)
C13_MulIntKeepsExponent ==
    op = "MulInt" =>
        LET n == IntOf(w.val)
        IN  /\ res.exp = v.exp
            /\ Small(v) => IntOf(res.val) = IntOf(v.val) * n
            /\ ~Small(v) =>
                  res.val = MkBig(v.val.neg # (n < 0),
                                  IF n = 0 THEN <<>>
                                  ELSE Zeros(WideDigits) \o NatDigits(AbsI(n)))

\* MulInt(2*10^-1, 0) = 0*10^-1: the zero product keeps the exponent
C13_Witness ==
    /\ op = "MulInt"
    /\ v = New(2, -1)
    /\ w = New(0, 0)
    /\ res = New(0, -1)

\* MulInt(2*10^-1, 5) = 10*10^-1
C13_WitnessTen ==
    /\ op = "MulInt"
    /\ v = New(2, -1)
    /\ w = New(5, 0)
    /\ res = New(10, -1)

(***************************************************************************)
(* Helpers of the text properties: the literal grammar                     *)
(* [sign] digits [ '.' digits ] and the format, written from their         *)
(* statements and not from the parser or the formatter.                    *)
(***************************************************************************)
Unsigned(s) == IF s # <<>> /\ s[1] \in {"+", "-"} THEN Tail(s) ELSE s
AllDigits(t) == \A i \in 1..Len(t) : IsDigitChar(t[i])
\* the position of the first point of s, Len(s) + 1 when it has none
PointAt(s) ==
    IF \E i \in 1..Len(s) : s[i] = "."
    THEN CHOOSE i \in 1..Len(s) : s[i] = "." /\ \A j \in 1..(i - 1) : s[j] # "."
    ELSE Len(s) + 1
IntegerDigits(s) == SubSeq(Unsigned(s), 1, PointAt(Unsigned(s)) - 1)
FractionDigits(s) == SubSeq(Unsigned(s), PointAt(Unsigned(s)) + 1, Len(Unsigned(s)))
HasPoint(s) == PointAt(s) <= Len(s)
\* [sign] digits [ '.' digits ], the integer digits empty only before a fraction
InGrammar(s) ==
    /\ AllDigits(IntegerDigits(s))
    /\ AllDigits(FractionDigits(s))
    /\ IF HasPoint(s) THEN FractionDigits(s) # <<>> ELSE IntegerDigits(s) # <<>>
\* [sign] digits '.': the literal the grammar leaves open
TrailingPoint(s) ==
    /\ HasPoint(s)
    /\ FractionDigits(s) = <<>>
    /\ IntegerDigits(s) # <<>>
    /\ AllDigits(IntegerDigits(s))
\* the big.Int a sign and a digit text denote
Denoted(neg, t) == MkBig(neg, Trim([i \in 1..Len(t) |-> CharVal(t[Len(t) - i + 1])]))

\* the text the format rules give for the stored pair, every digit kept
ClaimedText(d) ==
    LET digits == IF d.val.abs = <<>> THEN <<"0">> ELSE DigitText(d.val.abs)
        n      == -d.exp
        padded == Repeat("0", n + 1 - Len(digits)) \o digits
        body   == IF d.exp >= 0 THEN digits \o Repeat("0", d.exp)
                  ELSE SubSeq(padded, 1, Len(padded) - n) \o <<".">>
                         \o SubSeq(padded, Len(padded) - n + 1, Len(padded))
    IN  IF d.val.neg THEN <<"-">> \o body ELSE body

(***************************************************************************)
(* C14: String() is the digits of |mantissa| for exponent 0, those digits  *)
(* followed by exponent zeros for a positive exponent, and for a negative  *)
(* exponent the digits with a point -exponent places from the right,       *)
(* left-padded to 0.00ddd, every fractional digit kept, trailing zeros     *)
(* included (50*10^-1 is "5.0"); "-" is written before a negative          *)
(* mantissa.                                                               *)
(***************************************************************************)
C14_StringKeepsEveryDigit ==
    op = "String" => str = ClaimedText(v)

\* what String does keep: the claimed text whenever the fraction does not end
\* in a zero and the coefficient of a positive exponent is not zero
C14_StringOfUntrimmedPairs ==
    (/\ op = "String"
     /\ v.exp < 0 => Dig(v.val.abs, 1) # 0
     /\ v.exp > 0 => v.val.abs # <<>>)
        => str = ClaimedText(v)

(***************************************************************************)
(* C15: parsing the text of d.String() succeeds and returns the identical  *)
(* (mantissa, exponent) pair as d, for every exponent and every mantissa.  *)
(* Violated by 50*10^-1: String drops the trailing zero of the fraction    *)
(* ("5"), and the text parses to 5*10^0.                                   *)
(***************************************************************************)
C15_RoundTripIdenticalPair ==
    op = "RoundTrip" => (outcome = "value" /\ res = v)

\* the part of C15 that holds where String writes every digit of the
\* fraction: a pair of exponent 0, or of a negative exponent and a mantissa
\* not ending in a zero, comes back identical
C15_RoundTripOfUntrimmedPairs ==
    (/\ op = "RoundTrip"
     /\ v.exp <= 0
     /\ v.exp < 0 => Dig(v.val.abs, 1) # 0)
        => (outcome = "value" /\ res = v)

\* what holds of every pair: the text parses, to a Number denoting the same
\* value as d, whose exponent is minus the number of fractional digits of
\* the text
C15_RoundTripKeepsValue ==
    op = "RoundTrip" =>
        LET lo == MinI(v.exp, res.exp)
        IN  /\ outcome = "value"
            /\ res.exp = -Len(FractionDigits(str))
            /\ Small(v) =>
                  IntOf(res.val) * Pow10(res.exp - lo)
                      = IntOf(v.val) * Pow10(v.exp - lo)
            /\ ~Small(v) =>
                  BigMulPow10(res.val, res.exp - lo)
                      = BigMulPow10(v.val, v.exp - lo)

(***************************************************************************)
(* C16: for every text FromString accepts, the text is a sign, integer     *)
(* digits and fractional digits, the mantissa is the integer digits        *)
(* followed by the fractional digits, read as one signed integer, and the  *)
(* exponent is minus the number of fractional digits: "0.0012340" is       *)
(* (12340, -7), "-0.0000000" is (0, -7), ".2" is (2, -1), "00" is (0, 0).  *)
(* Violated by the accepted texts "1e3", which parses to (1, 3), and       *)
(* ".-2", which parses to (-2, -2).                                        *)
(***************************************************************************)
C16_AcceptedPairFromDigits ==
    (op = "FromString" /\ outcome = "value") =>
        /\ AllDigits(IntegerDigits(str))
        /\ AllDigits(FractionDigits(str))
        /\ res.exp = -Len(FractionDigits(str))
        /\ res.val = Denoted(str[1] = "-", IntegerDigits(str) \o FractionDigits(str))

\* the part of C16 that holds: every text of the grammar
\* [sign] digits [ '.' digits ] is accepted and parses to that pair
C16_ParsedPairFromDigits ==
    (op = "FromString" /\ InGrammar(str)) =>
        /\ outcome = "value"
        /\ res.exp = -Len(FractionDigits(str))
        /\ res.val = Denoted(str[1] = "-", IntegerDigits(str) \o FractionDigits(str))

\* the rows of TestNumberUnmarshalText the claim quotes
C16_QuotedRows ==
    op = "FromString" =>
        /\ str = <<"0", ".", "0", "0", "1", "2", "3", "4", "0">> => res = New(12340, -7)
        /\ str = <<"-", "0", ".", "0", "0", "0", "0", "0", "0", "0">> => res = New(0, -7)
        /\ str = <<".", "2">> => res = New(2, -1)
        /\ str = <<"0", "0">> => res = New(0, 0)

(***************************************************************************)
(* C17: FromString returns an error for every input outside the grammar    *)
(* [sign] digits [ '.' digits ]: empty input, a lone ".", whitespace, more *)
(* than one sign, a sign that is not the first character (".-2", "1.+2",   *)
(* "1.-"), more than one point, a non-digit character and scientific       *)
(* notation ("1e3").  ([sign] digits '.', which the grammar leaves open,   *)
(* is not counted.)                                                        *)
(***************************************************************************)
C17_RejectsOutsideGrammar ==
    (op = "FromString" /\ ~InGrammar(str) /\ ~TrailingPoint(str))
        => outcome = "error"

\* the inputs outside the grammar the parser does reject: empty, a lone ".",
\* whitespace, a letter other than the exponent mark, a comma, two points
C17_RejectedInputs ==
    (/\ op = "FromString"
     /\ \/ str = <<>>
        \/ str = <<".">>
        \/ \E i \in 1..Len(str) : str[i] \in {" ", "a", ","}
        \/ Cardinality({i \in 1..Len(str) : str[i] = "."}) > 1)
        => outcome = "error"

(***************************************************************************)
(* C18: FromFloat64(f) returns a non-nil error, and no usable Number, for  *)
(* f = +Inf, -Inf and NaN, and a nil error for every finite f.             *)
(***************************************************************************)
C18_NonFiniteIsAnError ==
    (op = "FromFloat64" /\ f \in NonFinite) => outcome = "error"

\* the finite half of the claim: a finite f converts, and one of few
\* digits to its own value
C18_FiniteConverts ==
    (op = "FromFloat64" /\ f \notin NonFinite) =>
        /\ outcome = "value"
        /\ f \in FewDigitFloats =>
              IF f.e2 >= 0
              THEN IntOf(res.val) * Pow10(res.exp)
                      = (IF f.neg THEN -1 ELSE 1) * DigitsNat(f.mant) * PowI(2, f.e2)
              ELSE IntOf(res.val) * Pow10(res.exp - f.e2)
                      = (IF f.neg THEN -1 ELSE 1) * DigitsNat(f.mant) * PowI(5, -f.e2)

\* the finite rows of TestFromFloat64: the shortest digits that read back,
\* not the exact expansion of the float64
C18_TestFromFloat64Rows ==
    op = "FromFloat64" =>
        /\ f = Float(FALSE, <<>>, 0) => res = New(0, 0)
        /\ f = Float(FALSE, <<1>>, 0) => res = New(1, 0)
        /\ f = Float(FALSE, <<5>>, 1) => res = New(1, 1)
        /\ f = TestFloat(FALSE, "0.1") => res = New(1, -1)
        /\ f = Float(TRUE, <<1>>, 0) => res = New(-1, 0)
        /\ f = Float(TRUE, <<5>>, 1) => res = New(-1, 1)
        /\ f = TestFloat(TRUE, "0.1") => res = New(-1, -1)
        /\ f = TestFloat(FALSE, "123.456") => res = New(123456, -3)
        /\ f = TestFloat(FALSE, "MaxFloat64") =>
              res = [val |-> MkBig(FALSE, Rev(<<1,7,9,7,6,9,3,1,3,4,8,6,2,3,1,5,7>>)),
                     exp |-> 292]
        /\ f = TestFloat(TRUE, "MaxFloat64") =>
              res = [val |-> MkBig(TRUE, Rev(<<1,7,9,7,6,9,3,1,3,4,8,6,2,3,1,5,7>>)),
                     exp |-> 292]
        /\ f = TestFloat(FALSE, "SmallestNonzeroFloat64") => res = New(5, -324)

\* 2^-24 has the seventeen digits 59604644775390625; sixteen read back, and
\* only rounding up stays above the nearer neighbour below
C18_PowerOfTwoRoundsUp ==
    (op = "FromFloat64" /\ f = TestFloat(FALSE, "2^-24")) =>
        res = [val |-> MkBig(FALSE, Rev(<<5,9,6,0,4,6,4,4,7,7,5,3,9,0,6,3>>)),
               exp |-> -23]

\* 498484681984085570 is 498484681984085568 exactly, between 4984...5536
\* and 4984...5600: the seventeen digits 49848468198408557 read back, the
\* last rounded up because upper was already above d one digit before
C18_RoundsUpBelowUpper ==
    op = "FromFloat64" =>
        /\ f = TestFloat(FALSE, "498484681984085570") =>
              res = [val |-> MkBig(FALSE, Rev(<<4,9,8,4,8,4,6,8,1,9,8,4,0,8,5,5,7>>)),
                     exp |-> 1]
        /\ f = TestFloat(TRUE, "498484681984085570") =>
              res = [val |-> MkBig(TRUE, Rev(<<4,9,8,4,8,4,6,8,1,9,8,4,0,8,5,5,7>>)),
                     exp |-> 1]
        /\ f = TestFloat(FALSE, "5.8339553793802237e+23") =>
              res = [val |-> MkBig(FALSE, Rev(<<5,8,3,3,9,5,5,3,7,9,3,8,0,2,2,3,7>>)),
                     exp |-> 7]

(***************************************************************************)
(* C19: no operation mutates its operands.  After any sequence of Round,   *)
(* Rescale, ScaledVal, MulInt, Add, Sub, Mul, Neg and Cmp calls the        *)
(* operand still has the coefficient it was constructed with, and the      *)
(* receiver of the last call the coefficient it had before the call, also  *)
(* when a call returned its input unchanged (Rescale to the exponent the   *)
(* Number already has) and the result, which shares the operand's cell,    *)
(* went into further calls.  (The exponent is a field of the struct, which *)
(* is passed by value.)  Whether this holds rests on the one choice the    *)
(* sources leave open: it holds of every sequence in which the library's   *)
(* Round never works on its receiver's own big.Int, and fails after one in *)
(* which it does.                                                          *)
(***************************************************************************)
C19_OperandsKeepTheirValue ==
    /\ cell[VP] = v.val
    /\ trace # <<>> => cell[PP] = w.val

\* the operands keep their value in every sequence of calls in which the
\* library's Round made a big.Int of its own
C19_OperandsKeptUnlessRoundInPlace ==
    (\A i \in 1..Len(trace) : ~trace[i].own) =>
        /\ cell[VP] = v.val
        /\ trace # <<>> => cell[PP] = w.val

\* Rescale(0.5, -1) returned its input, which then went into Round, whose
\* receiver has the one digit more; Round made a copy: the result is 1 and
\* the operand is still 5*10^-1
C19_RoundOnACopy ==
    /\ trace = << [op |-> "Rescale", shared |-> TRUE, own |-> FALSE],
                  [op |-> "Round", shared |-> TRUE, own |-> FALSE] >>
    /\ v = New(5, -1)
    /\ res = New(1, 0)
    /\ rp = RP
    /\ cell[VP] = Big(5)

\* the same two calls, Round working on the big.Int of its receiver: the
\* result is 1 and the operand, constructed as 5*10^-1, reads 1*10^-1
C19_RoundInPlace ==
    /\ trace = << [op |-> "Rescale", shared |-> TRUE, own |-> FALSE],
                  [op |-> "Round", shared |-> TRUE, own |-> TRUE] >>
    /\ v = New(5, -1)
    /\ res = New(1, 0)
    /\ rp = VP
    /\ cell[VP] = Big(1)

\* the by-value functions and the functions on the heap agree on the result
C19_ResultInItsCell ==
    /\ res.val = (IF rp = VP THEN cell[VP] ELSE cell[RP])
    /\ (Len(trace) = 1 /\ op = "Rescale") => \E e \in SeqExps : res = Rescale(v, e)
    /\ (Len(trace) = 1 /\ op = "Round") =>
          \E e \in SeqExps, r \in Rules : res = Round(v, e, r)

(***************************************************************************)
(* C20: as the comments on the rounding-rule constants say, RoundFloor     *)
(* rounds towards positive infinity and RoundCeil towards negative         *)
(* infinity: for exp above v's exponent Round(v, exp, RoundFloor) >= v and *)
(* Round(v, exp, RoundCeil) <= v.                                          *)
(***************************************************************************)
C20_FloorUpCeilDown ==
    /\ (RoundsUp(RoundFloor) /\ Small(v)) =>
          IntOf(res.val) * Pow10(exp - v.exp) >= IntOf(v.val)
    /\ (RoundsUp(RoundCeil) /\ Small(v)) =>
          IntOf(res.val) * Pow10(exp - v.exp) <= IntOf(v.val)


(***************************************************************************)
(* C22: for exp below d's exponent ScaledVal(d, exp) returns exactly       *)
(* m*10^(e-exp), and when that product is outside the signed 64-bit range  *)
(* the call returns no integer at all (it never hands back the product's   *)
(* low 64 bits).  Violated: CoefficientInt64 has no failing path, and for  *)
(* a product beyond int64 the value returned is the product reduced        *)
(* modulo 2^64.                                                            *)
(***************************************************************************)
C22_FinerScaledValExactOrFails ==
    (op = "ScaledVal" /\ exp < v.exp) =>
        IF FitsInt64(BigMulPow10(v.val, v.exp - exp))
        THEN /\ outcome = "value"
             /\ ival = BigMulPow10(v.val, v.exp - exp)
        ELSE outcome # "value"

\* the part of C22 that holds: the exact product whenever it is within int64
C22_ProductWithinInt64 ==
    (/\ op = "ScaledVal"
     /\ exp < v.exp
     /\ FitsInt64(BigMulPow10(v.val, v.exp - exp)))
        => /\ outcome = "value"
           /\ ival = BigMulPow10(v.val, v.exp - exp)


(***************************************************************************)
(* C23: Round(v, exp, rule) with exp above v's exponent and a rule that is *)
(* none of the five declared constants (negative, or above RoundBankers)   *)
(* returns what Round(v, exp, RoundTruncate) returns, the quotient of m by *)
(* 10^(exp-e) truncated toward zero at exponent exp; the call returns a    *)
(* value (no panic, no error).                                             *)
(***************************************************************************)
C23_UnknownRuleTruncates ==
    (op = "Round" /\ rule \notin Rules /\ exp > v.exp) =>
        /\ outcome = "value"
        /\ res = Round(v, exp, RoundTruncate)
        /\ res.exp = exp
        /\ Small(v) =>
              IntOf(res.val) = TruncQuo(IntOf(v.val), Pow10(exp - v.exp))
        /\ ~Small(v) => res.val = WideScaled(v, v.exp - exp)

\* rule 5 (one past RoundBankers): -1.45 at exponent -1 is -1.4
C23_Witness ==
    /\ op = "Round"
    /\ rule = RoundBankers + 1
    /\ v = New(-145, -2)
    /\ exp = -1
    /\ res = New(-14, -1)
    /\ outcome = "value"

\* rule -1: 1.5 at exponent 0 is 1 (every rounding rule but Floor gives 2)
C23_WitnessNegative ==
    /\ op = "Round"
    /\ rule = RoundTruncate - 1
    /\ v = New(15, -1)
    /\ exp = 0
    /\ res = New(1, 0)
    /\ outcome = "value"


(***************************************************************************)
(* C24: for exp above v's exponent and each of the five rules r, the       *)
(* result of Round(v, exp, r) lies between Round(v, exp, RoundFloor) and   *)
(* Round(v, exp, RoundCeil) as values.  When v is an exact multiple of     *)
(* 10^exp the Floor and Ceil results are equal and every rule returns that *)
(* value; otherwise Ceil is exactly one unit of 10^exp above Floor, with v *)
(* strictly between the two.                                               *)
(***************************************************************************)
C24_FloorCeilBracket ==
    (op = "Round" /\ rule \in Rules /\ exp > v.exp) =>
        LET fl == Round(v, exp, RoundFloor)
            ce == Round(v, exp, RoundCeil)
        IN  /\ fl.exp = exp /\ ce.exp = exp /\ res.exp = exp
            /\ DecCmp(fl, res) <= 0
            /\ DecCmp(res, ce) <= 0
            /\ Small(v) =>
                  LET m == IntOf(v.val)
                      P == Pow10(exp - v.exp)
                      qf == IntOf(fl.val)
                      qc == IntOf(ce.val)
                      q == IntOf(res.val)
                  IN  /\ qf <= q /\ q <= qc
                      /\ IF m % P = 0
                         THEN /\ qc = qf
                              /\ q * P = m
                         ELSE /\ qc - qf = 1
                              /\ qf * P < m /\ m < qc * P
            /\ ~Small(v) =>
                  /\ ce = fl
                  /\ res = fl
                  /\ res.val = WideScaled(v, v.exp - exp)

\* -1.45 at exponent -1: Floor -1.5, Ceil -1.4, Bankers -1.4
C24_Witness ==
    /\ op = "Round"
    /\ rule = RoundBankers
    /\ v = New(-145, -2)
    /\ exp = -1
    /\ res = New(-14, -1)
    /\ Round(v, exp, RoundFloor) = New(-15, -1)
    /\ Round(v, exp, RoundCeil) = New(-14, -1)

\* 1.50 at exponent -1 is a multiple: Floor, Ceil and Math all give 1.5
C24_WitnessExact ==
    /\ op = "Round"
    /\ rule = RoundMath
    /\ v = New(150, -2)
    /\ exp = -1
    /\ res = New(15, -1)
    /\ Round(v, exp, RoundFloor) = New(15, -1)
    /\ Round(v, exp, RoundCeil) = New(15, -1)


\* what TestFromRat expects of 1234/100 at exponents -2 .. 1
Expected1234(e) ==
    IF e = -2 THEN New(1234, -2)
    ELSE IF e = -1 THEN New(123, -1)
    ELSE IF e = 0 THEN New(12, 0)
    ELSE New(1, 1)

\* a NewFromRat of either source file has returned
FromRatDone == op \in {"NewFromRat", "NewFromRatDiv"}

(***************************************************************************)
(* C21: NewFromRat(r, e) returns a Number whose exponent is exactly e,     *)
(* whether r is an integer or a proper fraction, and for r = 1234/100 the  *)
(* results at e = -2, -1, 0, 1 are (1234, -2), (123, -1), (12, 0), (1, 1). *)
(* Violated by the NewFromRat of src/decimal.go: for an integer r it       *)
(* returns exponent 0 whatever e is, and for a fraction whose float64 has  *)
(* few binary digits it returns that float's own exponent.                 *)
(***************************************************************************)
C21_ExponentIsTheGivenOne ==
    FromRatDone =>
        /\ res.exp = exp
        /\ (TheRat = NewRat(1234, 100) /\ exp \in -2..1) => res = Expected1234(exp)

\* the part of C21 that holds of both sources: the rows of TestFromRat for
\* 1234/100, and a proper fraction never gets an exponent below the given one
C21_TestRowsOf1234 ==
    FromRatDone =>
        /\ (TheRat = NewRat(1234, 100) /\ exp \in -2..1) => res = Expected1234(exp)
        /\ ~IsInt(TheRat) => res.exp >= exp

\* the part of C21 that holds of src/float64.go: the exponent is the given
\* one and the coefficient is the quotient at that exponent, truncated
\* toward zero
C21_DivisionBroughtToExponent ==
    op = "NewFromRatDiv" =>
        LET n == IF exp < 0 THEN BigMulPow10(v.val, -exp).abs ELSE v.val.abs
            d == IF exp > 0 THEN BigMulPow10(w.val, exp).abs ELSE w.val.abs
            q == res.val.abs
        IN  /\ res.exp = exp
            /\ res.val.neg => v.val.neg
            /\ AbsCmp(AbsMul(q, d), n) <= 0
            /\ AbsCmp(n, AbsMul(AbsAdd(q, <<1>>), d)) < 0

\* the rows of TestFromRat for 1000000000/3, with the digits of the float64
\* 333333333.33333331346511840820312, as src/decimal.go returns them
C21_FloatRowsOfThird ==
    (op = "NewFromRat" /\ TheRat = NewRat(1000000000, 3)) =>
        /\ exp = 0 => res = New(333333333, 0)
        /\ exp = -7 => res = [val |-> MkBig(FALSE, Rev(<<3,3,3,3,3,3,3,3,3,3,3,3,3,3,3,3>>)), exp |-> -7]
        /\ exp = -8 => res = [val |-> MkBig(FALSE, Rev(<<3,3,3,3,3,3,3,3,3,3,3,3,3,3,3,3,1>>)), exp |-> -8]
        /\ exp = -9 => res = [val |-> MkBig(FALSE, Rev(<<3,3,3,3,3,3,3,3,3,3,3,3,3,3,3,3,1,3>>)), exp |-> -9]
        /\ exp = -10 => res = [val |-> MkBig(FALSE, Rev(<<3,3,3,3,3,3,3,3,3,3,3,3,3,3,3,3,1,3,5>>)), exp |-> -10]

\* src/decimal.go on 7/40000 = 0.000175, whose float64 is
\* 0.000174999999999999993..., and on (2^54 + 1)/2, whose float64 is 2^53
C21_FloatRowsOfRoundedRats ==
    op = "NewFromRat" =>
        /\ (TheRat = NewRat(7, 40000) /\ exp = -5) => res = New(17, -5)
        /\ (TheRat = NewRat(7, 40000) /\ exp = -4) => res = New(2, -4)
        /\ (TheRat.den = Big(2) /\ Len(TheRat.num.abs) = 17 /\ exp = 0) =>
              res = [val |-> MkBig(FALSE, Rev(<<9,0,0,7,1,9,9,2,5,4,7,4,0,9,9,2>>)), exp |-> 0]

\* src/decimal.go on an integer Rat: the coefficient is an int64 whatever the
\* Rat is; it is the Rat itself when float64 holds the Rat exactly and int64
\* holds that float64, and one of the two int64 bounds for 2^63 - 1, whose
\* float64 is 2^63
C21_IntegerRatGivesAnInt64 ==
    (op = "NewFromRat" /\ IsInt(TheRat)) =>
        /\ res.exp = 0
        /\ FitsInt64(res.val)
        /\ (Len(v.val.abs) <= 15 \/ v.val = MkBig(TRUE, Two63)) => res.val = v.val
        /\ (~v.val.neg /\ Len(v.val.abs) = 19) =>
              res.val \in {MkBig(TRUE, Two63), v.val}
        /\ v.val = MkBig(TRUE, Two64) => res.val = MkBig(TRUE, Two63)

====
